---- MODULE Spec2Model ----
(***************************************************************************)
(* The in-memory backend of the incremental computation engine             *)
(* (turbo-tasks-memory, memory_backend.rs): the task store, the            *)
(* memoization cache, the id allocators, the background jobs and the       *)
(* executor-facing facade.  Task, Output and Slot live in task.rs,         *)
(* output.rs and slot.rs; their operations are modelled from the           *)
(* specification text (sections 4.2 - 4.5).                                *)
(***************************************************************************)
EXTENDS Integers, FiniteSets, Sequences, TLC

\* ------------------------------------------------------------------ bounds
MaxTasks == 3
NumCallers == 2
MaxCalls == 3
MaxRoots == 1
MaxTransient == 2
MaxJobs == 2
MaxEpoch == 2
MaxSlots == 1

Ids == 1..MaxTasks
Callers == 1..NumCallers
JobIds == 1..MaxJobs

\* PersistentTaskType: the fingerprints the cache is keyed by
PersistentTaskType == {"Native", "ResolveTrait"}
\* TransientTaskType
TransientTaskType == {"Root"}
\* RawVc values a task body can return
Values == {"a", "b"}

\* Option::None of a value, and of an id
None == "None"
\* the EventListener try_get_output answers with while the output is not there
Listener == "Listener"
NoId == 0
\* the outcome of a call that panicked (with_task unwraps a missing entry)
Panic == 0 - 1

\* SlotMappings::default, and the table a task holds after a run: the slots it mapped
NoMappings == [taken |-> FALSE, slots |-> {}]
SlotMappings(indices) == [taken |-> FALSE, slots |-> indices]
\* the table after take_slot_mappings moved it out
TakenMappings == [taken |-> TRUE, slots |-> {}]

\* an empty entry of the task store, of the job store, of the running jobs
NoTask == [ty |-> "NoTask", state |-> "Dirty", epoch |-> 0, output |-> None,
           output_readers |-> {}, slots |-> << >>, slot_mappings |-> NoMappings,
           dependencies |-> {}, children |-> {}, parents |-> {}, active_count |-> 0,
           anchored |-> FALSE]
NoJob == [kind |-> "NoJob", tasks |-> {}]
NoRun == [kind |-> "NoJob", tasks |-> {}, freeing |-> NoId, done |-> FALSE]

VARIABLES
    memory_tasks,               \* NoMoveVec<Task>: id -> Task or NoTask
    task_cache,                 \* FHashMap<PersistentTaskType, TaskId>
    id_factory,                 \* IdFactory<TaskId> handed to the backend
    background_jobs,            \* NoMoveVec<BackgroundJob>
    background_job_id_factory,  \* IdFactory<BackgroundJobId>
    job_running,                \* jobs taken by run_background_job, still running
    callers,                    \* get_or_create_persistent_task calls in flight
    scheduled,                  \* ids handed to turbo_tasks.schedule, not yet picked up
    notified,                   \* readers handed to turbo_tasks for notify_slot_change
    executing,                  \* id -> number of futures of the task the executor holds
    dependencies_to_track,      \* id -> the edges its running body has read so far
    last,                       \* the last facade call that returned, with its result
    hist,                       \* what has happened so far: counters, values written and read
    chunks,                     \* ChunkedVec<T>::chunks: Vec<Vec<T>>, each with its capacity
    exact_size_iter,            \* the ExactSizeIter handed out by iter or into_iter, if any
    pushed,                     \* the items pushed so far, in push order
    yielded,                    \* the items the iterator has yielded so far
    build                       \* the element type (zero-sized or not) and the overflow checks

\* the state of the backend, the state of a ChunkedVec (utils/chunked_vec.rs)
backendState == <<memory_tasks, task_cache, id_factory, background_jobs,
                  background_job_id_factory, job_running, callers, scheduled, notified,
                  executing, dependencies_to_track, last, hist>>
vecState == <<chunks, exact_size_iter, pushed, yielded, build>>

vars == <<backendState, vecState>>

\* what the creation and collection of tasks leaves alone, what executions leave alone
\* (no operation of the backend touches a ChunkedVec)
execState == <<notified, executing, dependencies_to_track, vecState>>
cacheState == <<task_cache, id_factory, background_jobs, background_job_id_factory,
                job_running, callers, hist, vecState>>
cacheRest == <<task_cache, id_factory, background_jobs, background_job_id_factory,
               job_running, callers, vecState>>

\* ------------------------------------------------------------- id factory
\* IdFactory::new
IdFactoryNew == [free |-> {}, next |-> 1]

\* the ids IdFactory::get may hand out: a reclaimed id if there is one, else a new one
IdFactoryCandidates(f, max) ==
    IF f.free # {} THEN f.free
    ELSE IF f.next <= max THEN {f.next} ELSE {}

\* IdFactory::get, having handed out id
IdFactoryGet(f, id) ==
    IF id \in f.free THEN [f EXCEPT !.free = @ \ {id}]
    ELSE [f EXCEPT !.next = @ + 1]

\* IdFactory::reuse
IdFactoryReuse(f, id) == [f EXCEPT !.free = @ \cup {id}]

\* ids currently handed out by a factory
Allocated(f) == (1..(f.next - 1)) \ f.free

\* ------------------------------------------------------------------- Task
\* Task::new_native / new_resolve_native / new_resolve_trait: a persistent task starts Dirty
TaskNewPersistent(ty) ==
    [NoTask EXCEPT !.ty = ty, !.state = "Dirty"]

\* Task::new_root / new_once: a transient task starts Scheduled and anchored
TaskNewTransient(ty) ==
    [NoTask EXCEPT !.ty = ty, !.state = "Scheduled", !.active_count = 1, !.anchored = TRUE]

Live(mt) == {t \in DOMAIN mt : mt[t] # NoTask}

\* the tasks an activation or deactivation that starts at `frontier` visits: each
\* task once (the visited set), going on to the children of a task whose count
\* crosses zero (its count is `edge` before the step)
RECURSIVE Visit(_, _, _, _)
Visit(mt, frontier, visited, edge) ==
    IF frontier \subseteq visited THEN visited
    ELSE LET c == CHOOSE x \in frontier \ visited : TRUE
             more == IF mt[c].active_count = edge
                     THEN mt[c].children \cap Live(mt) ELSE {}
         IN  Visit(mt, frontier \cup more, visited \cup {c}, edge)

\* +1 on the active count of every task of V
Activate(mt, V) ==
    [t \in Ids |-> IF t \in V THEN [mt[t] EXCEPT !.active_count = @ + 1] ELSE mt[t]]

\* -1 on the active count of every task of V
Deactivate(mt, V) ==
    [t \in Ids |-> IF t \in V /\ mt[t].active_count > 0
                   THEN [mt[t] EXCEPT !.active_count = @ - 1] ELSE mt[t]]

\* Task::connect_child, the store after it: the edge is inserted on both sides
ConnectChild(mt, parent, child) ==
    IF child \in mt[parent].children THEN mt
    ELSE LET mt0 == [mt EXCEPT ![parent].children = @ \cup {child}]
             mt1 == [mt0 EXCEPT ![child].parents = @ \cup {parent}]
         IN  IF mt[parent].active_count > 0
             THEN Activate(mt1, Visit(mt1, {child}, {}, 0))
             ELSE mt1

\* Task::connect_child, the tasks it marks for scheduling: the Dirty tasks it made active
ConnectChildSchedules(mt, parent, child) ==
    IF child \in mt[parent].children \/ mt[parent].active_count = 0 THEN {}
    ELSE LET mt1 == [mt EXCEPT ![parent].children = @ \cup {child}]
         IN  {t \in Visit(mt1, {child}, {}, 0) :
                 mt1[t].active_count = 0 /\ mt1[t].state = "Dirty"}

\* Task::remove, the store after its first half: the task is torn down, taken out
\* of its neighbours' edge sets and out of the store
TaskRemove(mt, t) ==
    [u \in Ids |->
        IF u = t \/ mt[u] = NoTask THEN NoTask
        ELSE [mt[u] EXCEPT !.children = @ \ {t}, !.parents = @ \ {t},
                           !.output_readers = @ \ {t},
                           !.slots = [i \in DOMAIN @ |-> [@[i] EXCEPT !.readers = @ \ {t}]],
                           !.dependencies = {e \in @ : e.task # t}]]

\* Task::remove, the cache after it: the entry under the task's fingerprint is erased
TaskRemoveCache(cache, mt, t) ==
    [k \in PersistentTaskType |->
        IF mt[t].ty = k /\ cache[k] = t THEN NoId ELSE cache[k]]

\* Task::deactivate_tasks: the tasks whose count the job decrements
DeactivateVisited(mt, tasks) ==
    Visit(mt, UNION {mt[t].children \cap Live(mt) : t \in tasks \cap Live(mt)}, {}, 1)

\* Task::deactivate_tasks: the tasks that have settled at active_count 0
DeactivateSettled(mt, tasks) ==
    LET mt1 == Deactivate(mt, DeactivateVisited(mt, tasks))
    IN  {t \in (tasks \cup DeactivateVisited(mt, tasks)) \cap Live(mt) :
            mt1[t].active_count = 0}

\* ----------------------------------------------------------------- facade
\* what the last call that returned was: its name, the key or task it was about, the
\* id it returned or the outcome it had
Last(op, key, task, ret, out) ==
    [op |-> op, key |-> key, task |-> task, ret |-> ret, out |-> out, tick |-> last.tick]

\* the same for the calls of a running execution, which flip tick
LastExec(op, key, task, ret, out) ==
    [op |-> op, key |-> key, task |-> task, ret |-> ret, out |-> out, tick |-> ~last.tick]

IdleCaller == [pc |-> "idle", task_type |-> None, parent_task |-> NoId, id |-> NoId,
               result |-> NoId, clean |-> TRUE]

NoHist == [calls |-> 0, roots |-> 0,
           missed |-> [k \in PersistentTaskType |-> 0],
           constructed |-> [k \in PersistentTaskType |-> 0],
           inserted |-> [k \in PersistentTaskType |-> 0],
           discarded |-> [k \in PersistentTaskType |-> 0],
           returned |-> [k \in PersistentTaskType |-> {}],
           done |-> [t \in Ids |-> None],
           seen |-> [t \in Ids |-> {}],
           waiting |-> {},
           woken |-> {}]

\* no iterator handed out
NoIter == [kind |-> "None", iter |-> << >>, len |-> 0]

\* ChunkedVec::new of an element type of non-zero size, untouched
NoChunkedVec ==
    /\ chunks = << >>
    /\ exact_size_iter = NoIter
    /\ pushed = << >>
    /\ yielded = << >>
    /\ build = [zero_sized |-> FALSE, overflow_checks |-> FALSE]

\* MemoryBackend::new, and the executor around it before any call
Init ==
    /\ memory_tasks = [t \in Ids |-> NoTask]
    /\ task_cache = [k \in PersistentTaskType |-> NoId]
    /\ id_factory = IdFactoryNew
    /\ background_jobs = [j \in JobIds |-> NoJob]
    /\ background_job_id_factory = IdFactoryNew
    /\ job_running = [j \in JobIds |-> NoRun]
    /\ callers = [c \in Callers |-> IdleCaller]
    /\ scheduled = {}
    /\ notified = {}
    /\ executing = [t \in Ids |-> 0]
    /\ dependencies_to_track = [t \in Ids |-> {}]
    /\ last = [op |-> "new", key |-> None, task |-> NoId, ret |-> NoId, out |-> None, tick |-> FALSE]
    /\ hist = NoHist
    /\ NoChunkedVec

\* bookkeeping for the claims: a task of fingerprint ty has been removed, the calls
\* for ty in flight are no longer removal-free and the counts for ty start again
HistRemovedCallers(cs, ty) ==
    [c \in Callers |-> IF cs[c].task_type = ty THEN [cs[c] EXCEPT !.clean = FALSE] ELSE cs[c]]

HistRemoved(h, ty) ==
    IF ty \in PersistentTaskType
    THEN [h EXCEPT !.returned[ty] = {}]
    ELSE h

\* MemoryBackend::create_background_job: the job store after storing job under id
CreateBackgroundJobStore(jobs, id, job) == [jobs EXCEPT ![id] = job]

\* the task inserted without the call to turbo_tasks.schedule
CreateTransientTask_NoSchedule(ty) ==
    /\ \E id \in IdFactoryCandidates(id_factory, MaxTasks) :
        /\ id_factory' = IdFactoryGet(id_factory, id)
        /\ memory_tasks' = [memory_tasks EXCEPT ![id] = TaskNewTransient(ty)]
        /\ scheduled' = scheduled
        /\ last' = Last("create_transient_task", ty, NoId, id, None)
    /\ hist' = [hist EXCEPT !.roots = @ + 1]
    /\ UNCHANGED execState
    /\ UNCHANGED <<task_cache, background_jobs, background_job_id_factory,
                   job_running, callers>>

\* MemoryBackend::create_transient_task
CreateTransientTask(ty) ==
    /\ \E id \in IdFactoryCandidates(id_factory, MaxTasks) :
        /\ id_factory' = IdFactoryGet(id_factory, id)
        /\ memory_tasks' = [memory_tasks EXCEPT ![id] = TaskNewTransient(ty)]
        /\ scheduled' = scheduled \cup {id}
        /\ last' = Last("create_transient_task", ty, NoId, id, None)
    /\ hist' = [hist EXCEPT !.roots = @ + 1]
    /\ UNCHANGED execState
    /\ UNCHANGED <<task_cache, background_jobs, background_job_id_factory,
                   job_running, callers>>

\* the tasks a caller can name as parent_task: a transient task that was handed out, or
\* the task the cache holds for its fingerprint (a tentative task of the slow pass is
\* known to nobody but the caller that made it)
Known(mt, cache, t) ==
    /\ mt[t] # NoTask
    /\ mt[t].ty \in PersistentTaskType => cache[mt[t].ty] = t

\* the slow pass taken on every call, whether or not map.get found the key
GetOrCreateLookup_NoFastPass(c, ty, parent) ==
    /\ callers[c].pc = "idle"
    /\ hist.calls < MaxCalls
    /\ Known(memory_tasks, task_cache, parent)
    /\ callers' = [callers EXCEPT ![c] =
          [pc |-> "create", task_type |-> ty, parent_task |-> parent, id |-> NoId,
           result |-> task_cache[ty], clean |-> TRUE]]
    /\ hist' = [hist EXCEPT !.calls = @ + 1,
                            !.missed[ty] = IF task_cache[ty] = NoId THEN @ + 1 ELSE @]
    /\ UNCHANGED execState
    /\ UNCHANGED <<memory_tasks, task_cache, id_factory, background_jobs,
                   background_job_id_factory, job_running, scheduled, last>>

\* get_or_create_persistent_task, the fast pass: map.get(&task_type)
GetOrCreateLookup(c, ty, parent) ==
    /\ callers[c].pc = "idle"
    /\ hist.calls < MaxCalls
    /\ Known(memory_tasks, task_cache, parent)
    /\ callers' = [callers EXCEPT ![c] =
          [pc |-> IF task_cache[ty] # NoId THEN "connect" ELSE "create",
           task_type |-> ty, parent_task |-> parent, id |-> NoId,
           result |-> task_cache[ty], clean |-> TRUE]]
    /\ hist' = [hist EXCEPT !.calls = @ + 1,
                            !.missed[ty] = IF task_cache[ty] = NoId THEN @ + 1 ELSE @]
    /\ UNCHANGED execState
    /\ UNCHANGED <<memory_tasks, task_cache, id_factory, background_jobs,
                   background_job_id_factory, job_running, scheduled, last>>

\* get_or_create_persistent_task, the slow pass: id_factory.get(), Task::new_*,
\* memory_tasks.insert
GetOrCreateNew(c) ==
    /\ callers[c].pc = "create"
    /\ \E id \in IdFactoryCandidates(id_factory, MaxTasks) :
        /\ id_factory' = IdFactoryGet(id_factory, id)
        /\ memory_tasks' = [memory_tasks EXCEPT ![id] = TaskNewPersistent(callers[c].task_type)]
        /\ callers' = [callers EXCEPT ![c].pc = "try_insert", ![c].id = id]
    /\ hist' = [hist EXCEPT !.constructed[callers[c].task_type] = @ + 1]
    /\ UNCHANGED execState
    /\ UNCHANGED <<task_cache, background_jobs, background_job_id_factory,
                   job_running, scheduled, last>>

\* a map.insert in place of map.try_insert: the later caller overwrites the entry
TryInsertWins_Overwrite(cache, ty) == TRUE

\* map.try_insert(task_type, id): Ok when the key is absent, else Err with the current id
TryInsertWins(cache, ty) == cache[ty] = NoId

\* get_or_create_persistent_task: map.try_insert and the match on its result
GetOrCreateTryInsert(c) ==
    /\ callers[c].pc = "try_insert"
    /\ IF TryInsertWins(task_cache, callers[c].task_type)
       THEN /\ task_cache' = [task_cache EXCEPT ![callers[c].task_type] = callers[c].id]
            /\ callers' = [callers EXCEPT ![c].pc = "connect", ![c].result = callers[c].id]
       ELSE /\ task_cache' = task_cache
            /\ callers' = [callers EXCEPT ![c].pc = "discard",
                                          ![c].result = task_cache[callers[c].task_type]]
    /\ hist' = IF TryInsertWins(task_cache, callers[c].task_type)
               THEN [hist EXCEPT !.inserted[callers[c].task_type] = @ + 1] ELSE hist
    /\ UNCHANGED execState
    /\ UNCHANGED <<memory_tasks, id_factory, background_jobs, background_job_id_factory,
                   job_running, scheduled, last>>

\* the Err arm: the store after memory_tasks.remove(*id)
DiscardStore(mt, id) == [mt EXCEPT ![id] = NoTask]

\* the Err arm without id_factory.reuse(id): the tentative id leaks
DiscardReuse_Leak(f, id) == f

\* the Err arm: the allocator after id_factory.reuse(id)
DiscardReuse(f, id) == IdFactoryReuse(f, id)

\* get_or_create_persistent_task, the Err arm of try_insert
GetOrCreateDiscard(c) ==
    /\ callers[c].pc = "discard"
    /\ memory_tasks' = DiscardStore(memory_tasks, callers[c].id)
    /\ id_factory' = DiscardReuse(id_factory, callers[c].id)
    /\ callers' = [callers EXCEPT ![c].pc = "connect"]
    /\ hist' = [hist EXCEPT !.discarded[callers[c].task_type] = @ + 1]
    /\ UNCHANGED execState
    /\ UNCHANGED <<task_cache, background_jobs, background_job_id_factory,
                   job_running, scheduled, last>>

\* the id get_or_create_persistent_task hands back
GetOrCreateResult(c) == callers[c].result

\* a fast pass that returns the cached id without connect_task_child
GetOrCreateConnect_FastPassSkips(c) ==
    /\ callers[c].pc = "connect"
    /\ LET parent == callers[c].parent_task
           child == GetOrCreateResult(c)
           ok == memory_tasks[parent] # NoTask /\ memory_tasks[child] # NoTask
           slow == ok /\ callers[c].id # NoId
       IN  /\ memory_tasks' = IF slow THEN ConnectChild(memory_tasks, parent, child)
                              ELSE memory_tasks
           /\ scheduled' = IF slow THEN scheduled \cup ConnectChildSchedules(memory_tasks, parent, child)
                           ELSE scheduled
           /\ callers' = [callers EXCEPT ![c] = IdleCaller]
           /\ last' = Last("get_or_create_persistent_task", callers[c].task_type, NoId,
                           IF ok THEN child ELSE Panic,
                           IF ok /\ memory_tasks[child].ty # callers[c].task_type
                           THEN "Reassigned" ELSE "Ok")
           /\ hist' = IF ok /\ callers[c].clean
                      THEN [hist EXCEPT !.returned[callers[c].task_type] = @ \cup {child}]
                      ELSE hist
    /\ UNCHANGED execState
    /\ UNCHANGED <<task_cache, id_factory, background_jobs, background_job_id_factory,
                   job_running>>

\* get_or_create_persistent_task: connect_task_child(parent_task, result) and return.
\* with_task unwraps the store entry: a missing task panics.
GetOrCreateConnect(c) ==
    /\ callers[c].pc = "connect"
    /\ LET parent == callers[c].parent_task
           child == GetOrCreateResult(c)
           ok == memory_tasks[parent] # NoTask /\ memory_tasks[child] # NoTask
       IN  /\ memory_tasks' = IF ok THEN ConnectChild(memory_tasks, parent, child)
                              ELSE memory_tasks
           /\ scheduled' = IF ok THEN scheduled \cup ConnectChildSchedules(memory_tasks, parent, child)
                           ELSE scheduled
           /\ callers' = [callers EXCEPT ![c] = IdleCaller]
           /\ last' = Last("get_or_create_persistent_task", callers[c].task_type, NoId,
                           IF ok THEN child ELSE Panic,
                           IF ok /\ memory_tasks[child].ty # callers[c].task_type
                           THEN "Reassigned" ELSE "Ok")
           /\ hist' = IF ok /\ callers[c].clean
                      THEN [hist EXCEPT !.returned[callers[c].task_type] = @ \cup {child}]
                      ELSE hist
    /\ UNCHANGED execState
    /\ UNCHANGED <<task_cache, id_factory, background_jobs, background_job_id_factory,
                   job_running>>

\* the external anchor of a transient task is released: its implicit +1 goes, and the
\* deactivation fans out in a background job
DropRoot(r) ==
    /\ memory_tasks[r] # NoTask
    /\ memory_tasks[r].anchored
    /\ \E j \in IdFactoryCandidates(background_job_id_factory, MaxJobs) :
        /\ background_job_id_factory' = IdFactoryGet(background_job_id_factory, j)
        /\ background_jobs' = CreateBackgroundJobStore(background_jobs, j,
                                  [kind |-> "DeactivateTasks", tasks |-> {r}])
    /\ memory_tasks' = [memory_tasks EXCEPT ![r].anchored = FALSE,
                                            ![r].active_count = @ - 1]
    /\ UNCHANGED execState
    /\ UNCHANGED <<task_cache, id_factory, job_running, callers, scheduled, last, hist>>

\* a run started on a job that is read and left in the store
RunBackgroundJobTake_Peek(j) ==
    /\ background_jobs[j] # NoJob
    /\ job_running[j] = NoRun
    /\ background_jobs' = background_jobs
    /\ job_running' = [job_running EXCEPT ![j] =
          [kind |-> background_jobs[j].kind, tasks |-> background_jobs[j].tasks,
           freeing |-> NoId, done |-> FALSE]]
    /\ UNCHANGED execState
    /\ UNCHANGED <<memory_tasks, task_cache, id_factory, background_job_id_factory,
                   callers, scheduled, last, hist>>

\* run_background_job: background_jobs.take(*id) found a job
RunBackgroundJobTake(j) ==
    /\ background_jobs[j] # NoJob
    /\ job_running[j] = NoRun
    /\ background_jobs' = [background_jobs EXCEPT ![j] = NoJob]
    /\ job_running' = [job_running EXCEPT ![j] =
          [kind |-> background_jobs[j].kind, tasks |-> background_jobs[j].tasks,
           freeing |-> NoId, done |-> FALSE]]
    /\ UNCHANGED execState
    /\ UNCHANGED <<memory_tasks, task_cache, id_factory, background_job_id_factory,
                   callers, scheduled, last, hist>>

\* BackgroundJob::run, DeactivateTasks arm: Task::deactivate_tasks
JobDeactivateTasks(j) ==
    /\ job_running[j] # NoRun
    /\ job_running[j].kind = "DeactivateTasks"
    /\ ~job_running[j].done
    /\ LET tasks == job_running[j].tasks
           settled == DeactivateSettled(memory_tasks, tasks)
       IN  /\ memory_tasks' = Deactivate(memory_tasks, DeactivateVisited(memory_tasks, tasks))
           /\ IF settled = {}
              THEN UNCHANGED <<background_jobs, background_job_id_factory>>
              ELSE \E n \in IdFactoryCandidates(background_job_id_factory, MaxJobs) :
                    /\ background_job_id_factory' = IdFactoryGet(background_job_id_factory, n)
                    /\ background_jobs' = CreateBackgroundJobStore(background_jobs, n,
                                              [kind |-> "RemoveTasks", tasks |-> settled])
    /\ job_running' = [job_running EXCEPT ![j].done = TRUE, ![j].tasks = {}]
    /\ UNCHANGED execState
    /\ UNCHANGED <<task_cache, id_factory, callers, scheduled, last, hist>>

\* BackgroundJob::run, RemoveTasks arm, one id of the loop: with_task(id, task.remove),
\* up to the point where the id is handed back
JobRemoveTask(j, t) ==
    /\ job_running[j] # NoRun
    /\ job_running[j].kind = "RemoveTasks"
    /\ job_running[j].freeing = NoId
    /\ t \in job_running[j].tasks
    /\ IF memory_tasks[t] = NoTask
       THEN \* with_task: unwrap of a missing entry panics, the job dies
            /\ job_running' = [job_running EXCEPT ![j] = NoRun]
            /\ last' = Last("run_background_job", None, t, Panic, None)
            /\ UNCHANGED <<memory_tasks, task_cache, callers, hist>>
       ELSE /\ task_cache' = TaskRemoveCache(task_cache, memory_tasks, t)
            /\ memory_tasks' = TaskRemove(memory_tasks, t)
            /\ job_running' = [job_running EXCEPT ![j].tasks = @ \ {t}, ![j].freeing = t]
            /\ callers' = HistRemovedCallers(callers, memory_tasks[t].ty)
            /\ hist' = HistRemoved(hist, memory_tasks[t].ty)
            /\ last' = last
    /\ UNCHANGED execState
    /\ UNCHANGED <<id_factory, background_jobs, background_job_id_factory, scheduled>>

\* Task::remove, its last step: the id goes back to the allocator
JobRemoveReuse(j) ==
    /\ job_running[j] # NoRun
    /\ job_running[j].freeing # NoId
    /\ id_factory' = IdFactoryReuse(id_factory, job_running[j].freeing)
    /\ job_running' = [job_running EXCEPT ![j].freeing = NoId,
                                          ![j].done = (job_running[j].tasks = {})]
    /\ UNCHANGED execState
    /\ UNCHANGED <<memory_tasks, task_cache, background_jobs, background_job_id_factory,
                   callers, scheduled, last, hist>>

\* the id handed back ahead of job.run: the run goes on under an id that is free
RunBackgroundJobFinish_BeforeRun(j) ==
    /\ job_running[j] # NoRun
    /\ j \notin background_job_id_factory.free
    /\ job_running' = job_running
    /\ background_job_id_factory' = IdFactoryReuse(background_job_id_factory, j)
    /\ UNCHANGED execState
    /\ UNCHANGED <<memory_tasks, task_cache, id_factory, background_jobs, callers,
                   scheduled, last, hist>>

\* run_background_job: the job has run, background_job_id_factory.reuse(id)
RunBackgroundJobFinish(j) ==
    /\ job_running[j] # NoRun
    /\ job_running[j].done
    /\ job_running' = [job_running EXCEPT ![j] = NoRun]
    /\ background_job_id_factory' = IdFactoryReuse(background_job_id_factory, j)
    /\ UNCHANGED execState
    /\ UNCHANGED <<memory_tasks, task_cache, id_factory, background_jobs, callers,
                   scheduled, last, hist>>

Next ==
    \/ \E ty \in TransientTaskType : hist.roots < MaxRoots /\ CreateTransientTask(ty)
    \/ \E c \in Callers, ty \in PersistentTaskType, p \in Ids : GetOrCreateLookup(c, ty, p)
    \/ \E c \in Callers : GetOrCreateNew(c)
    \/ \E c \in Callers : GetOrCreateTryInsert(c)
    \/ \E c \in Callers : GetOrCreateDiscard(c)
    \/ \E c \in Callers : GetOrCreateConnect(c)
    \/ \E r \in Ids : DropRoot(r)
    \/ \E j \in JobIds : RunBackgroundJobTake(j)
    \/ \E j \in JobIds : JobDeactivateTasks(j)
    \/ \E j \in JobIds, t \in Ids : JobRemoveTask(j, t)
    \/ \E j \in JobIds : JobRemoveReuse(j)
    \/ \E j \in JobIds : RunBackgroundJobFinish(j)

Spec == Init /\ [][Next]_vars

\* the cache alone: tasks are created and never collected
NextCache ==
    \/ \E ty \in TransientTaskType : hist.roots < MaxRoots /\ CreateTransientTask(ty)
    \/ \E c \in Callers, ty \in PersistentTaskType, p \in Ids : GetOrCreateLookup(c, ty, p)
    \/ \E c \in Callers : GetOrCreateNew(c)
    \/ \E c \in Callers : GetOrCreateTryInsert(c)
    \/ \E c \in Callers : GetOrCreateDiscard(c)
    \/ \E c \in Callers : GetOrCreateConnect(c)

SpecCache == Init /\ [][NextCache]_vars

\* creation of tasks with up to MaxTransient transient tasks, so that one is created
\* after persistent tasks exist and an id has been reclaimed
NextTransient ==
    \/ \E ty \in TransientTaskType : hist.roots < MaxTransient /\ CreateTransientTask(ty)
    \/ \E c \in Callers, ty \in PersistentTaskType, p \in Ids : GetOrCreateLookup(c, ty, p)
    \/ \E c \in Callers : GetOrCreateNew(c)
    \/ \E c \in Callers : GetOrCreateTryInsert(c)
    \/ \E c \in Callers : GetOrCreateDiscard(c)
    \/ \E c \in Callers : GetOrCreateConnect(c)

SpecTransient == Init /\ [][NextTransient]_vars

\* a backend holding two anchored roots (ids 1 and 2) and one cached persistent task
\* (id 3) that root 1 asked for: the state after two create_transient_task calls and one
\* get_or_create_persistent_task
InitGC ==
    /\ memory_tasks = [t \in Ids |->
          IF t = 1 THEN [TaskNewTransient("Root") EXCEPT !.children = {3}]
          ELSE IF t = 2 THEN TaskNewTransient("Root")
          ELSE IF t = 3 THEN [TaskNewPersistent("Native") EXCEPT !.active_count = 1,
                                                                 !.parents = {1}]
          ELSE NoTask]
    /\ task_cache = [k \in PersistentTaskType |-> IF k = "Native" THEN 3 ELSE NoId]
    /\ id_factory = [free |-> {}, next |-> 4]
    /\ background_jobs = [j \in JobIds |-> NoJob]
    /\ background_job_id_factory = IdFactoryNew
    /\ job_running = [j \in JobIds |-> NoRun]
    /\ callers = [c \in Callers |-> IdleCaller]
    /\ scheduled = {1, 2, 3}
    /\ notified = {}
    /\ executing = [t \in Ids |-> 0]
    /\ dependencies_to_track = [t \in Ids |-> {}]
    /\ last = [op |-> "get_or_create_persistent_task", key |-> "Native", task |-> NoId,
               ret |-> 3, out |-> "Ok", tick |-> FALSE]
    /\ hist = [NoHist EXCEPT !.calls = 1, !.roots = 2, !.missed["Native"] = 1,
                             !.constructed["Native"] = 1, !.inserted["Native"] = 1,
                             !.returned["Native"] = {3}]
    /\ NoChunkedVec

\* the cache and the background jobs under two roots
NextGC ==
    \/ \E c \in Callers, ty \in PersistentTaskType, p \in Ids : GetOrCreateLookup(c, ty, p)
    \/ \E c \in Callers : GetOrCreateNew(c)
    \/ \E c \in Callers : GetOrCreateTryInsert(c)
    \/ \E c \in Callers : GetOrCreateDiscard(c)
    \/ \E c \in Callers : GetOrCreateConnect(c)
    \/ \E r \in Ids : DropRoot(r)
    \/ \E j \in JobIds : RunBackgroundJobTake(j)
    \/ \E j \in JobIds : JobDeactivateTasks(j)
    \/ \E j \in JobIds, t \in Ids : JobRemoveTask(j, t)
    \/ \E j \in JobIds : JobRemoveReuse(j)
    \/ \E j \in JobIds : RunBackgroundJobFinish(j)

SpecGC == InitGC /\ [][NextGC]_vars

\* ------------------------------------------------- Output, Slot, Task state
\* RawVc::TaskOutput(task) and RawVc::TaskSlot(task, index)
TaskOutput(task) == [kind |-> "TaskOutput", task |-> task, index |-> 0]
TaskSlot(task, index) == [kind |-> "TaskSlot", task |-> task, index |-> index]

EmptySlot == [content |-> None, readers |-> {}]

\* the reader set an edge names, with reader r taken out or put in
EdgeReaders(mt, e, r, keep) ==
    IF mt[e.task] = NoTask THEN mt
    ELSE IF e.kind = "TaskOutput"
    THEN [mt EXCEPT ![e.task].output_readers = IF keep THEN @ \cup {r} ELSE @ \ {r}]
    ELSE IF e.index \in DOMAIN mt[e.task].slots
    THEN [mt EXCEPT ![e.task].slots[e.index].readers = IF keep THEN @ \cup {r} ELSE @ \ {r}]
    ELSE mt

RECURSIVE EdgesReaders(_, _, _, _)
EdgesReaders(mt, edges, r, keep) ==
    IF edges = {} THEN mt
    ELSE LET e == CHOOSE x \in edges : TRUE
         IN  EdgesReaders(EdgeReaders(mt, e, r, keep), edges \ {e}, r, keep)

\* Task::execution_started: Scheduled -> InProgress under a new epoch
ExecutionStarted(mt, t) == mt[t].state = "Scheduled"

\* the store after Task::execution_started returned true and take_slot_mappings
ExecutionStartedStore(mt, t) ==
    [mt EXCEPT ![t].state = "InProgress", ![t].epoch = @ + 1,
               ![t].slot_mappings = TakenMappings]

\* Output::write: a structurally equal value is a no-op
OutputWrite(task, value) ==
    IF task.output = value THEN task
    ELSE [task EXCEPT !.output = value, !.output_readers = {}]

\* Output::write: the old readers it hands back
OutputWriteReaders(task, value) ==
    IF task.output = value THEN {} ELSE task.output_readers

\* Task::execution_result: the result of a run that was not invalidated goes through
\* the write path, the result of a stale run is dropped
ExecutionResult(mt, t, result) ==
    IF mt[t].state = "InProgress" THEN [mt EXCEPT ![t] = OutputWrite(@, result)] ELSE mt

\* the listeners released only by a write that changes the output
ExecutionResultWakes_OnChange(mt, t, result) ==
    mt[t].state = "InProgress" /\ mt[t].output # result

\* Task::execution_result: the write path releases the listeners on the output, with a
\* changed value or an equal one
ExecutionResultWakes(mt, t, result) == mt[t].state = "InProgress"

\* Task::execution_result: the readers it enqueues slot-change notifications for
ExecutionResultNotifies(mt, t, result) ==
    IF mt[t].state = "InProgress" THEN OutputWriteReaders(mt[t], result) ELSE {}

\* Task::execution_completed, its return value: the task must be re-scheduled
ExecutionCompletedReturn(mt, t) == mt[t].state = "InProgressDirty"

\* Task::execution_completed: InProgress -> Done with the dependency set of the run
\* reconciled against the prior one, InProgressDirty -> Dirty
ExecutionCompleted(mt, t, deps) ==
    LET mappings == SlotMappings(DOMAIN mt[t].slots)
    IN  IF mt[t].state = "InProgress"
        THEN LET mt1 == EdgesReaders(mt, mt[t].dependencies \ deps, t, FALSE)
                 mt2 == EdgesReaders(mt1, deps, t, TRUE)
             IN  [mt2 EXCEPT ![t].state = "Done", ![t].dependencies = deps,
                             ![t].slot_mappings = mappings]
        ELSE IF mt[t].state = "InProgressDirty"
        THEN [mt EXCEPT ![t].state = "Dirty", ![t].slot_mappings = mappings]
        ELSE mt

\* all readers of a task: of its output and of every slot
AllReaders(task) ==
    task.output_readers \cup UNION {task.slots[i].readers : i \in DOMAIN task.slots}

\* an invalidation that marks every task that is not Done as a stale run
TaskInvalidate_MarksAll(task) ==
    IF task.state = "Done" THEN [task EXCEPT !.state = "Dirty"]
    ELSE [task EXCEPT !.state = "InProgressDirty"]

\* Task::invalidate: Done -> Dirty, InProgress -> InProgressDirty, else nothing
TaskInvalidate(task) ==
    IF task.state = "Done" THEN [task EXCEPT !.state = "Dirty"]
    ELSE IF task.state = "InProgress" THEN [task EXCEPT !.state = "InProgressDirty"]
    ELSE task

\* Task::invalidate: the readers a Done task propagates to
TaskInvalidateNotifies(task) == IF task.state = "Done" THEN AllReaders(task) ELSE {}

\* Task::invalidate: a Done task that is active enqueues itself for scheduling
TaskInvalidateSchedules(task) == task.state = "Done" /\ task.active_count > 0

\* Slot::assign: a changed content is stored and the readers are cleared
SlotAssign(slot, content) ==
    IF slot.content = content THEN slot ELSE [content |-> content, readers |-> {}]

\* Slot::assign: the prior readers it hands back
SlotAssignReaders(slot, content) ==
    IF slot.content = content THEN {} ELSE slot.readers

\* ------------------------------------------------------ facade, executions
\* the listener a pending read hands to `reader`, and the release of every listener on
\* an edge by a write, which leaves in woken the readers that write has released
Listen(h, e, reader) == [h EXCEPT !.waiting = @ \cup {<<e, reader>>}]
Release(h, e) ==
    [h EXCEPT !.waiting = {p \in @ : p[1] # e},
              !.woken = {p[2] : p \in {q \in h.waiting : q[1] = e}}]

\* the schedule transition: Dirty -> Scheduled
TaskSchedule(task) ==
    IF task.state = "Dirty" THEN [task EXCEPT !.state = "Scheduled"] ELSE task

\* the executor takes a scheduling request off its queue
Schedule(t) ==
    /\ t \in scheduled
    /\ memory_tasks[t] # NoTask
    /\ memory_tasks[t].epoch < MaxEpoch
    /\ memory_tasks' = [memory_tasks EXCEPT ![t] = TaskSchedule(@)]
    /\ scheduled' = scheduled \ {t}
    /\ UNCHANGED last
    /\ UNCHANGED execState
    /\ UNCHANGED cacheState

\* an execution spec handed out whatever execution_started answered
TryStartReturn_Always(mt, t) == "Some"

\* try_start_task_execution, what it returns
TryStartReturn(mt, t) == IF ExecutionStarted(mt, t) THEN "Some" ELSE "None"

\* take_slot_mappings called ahead of the execution_started test
TryStartStore_TakesMappings(mt, t) ==
    IF ExecutionStarted(mt, t) THEN ExecutionStartedStore(mt, t)
    ELSE [mt EXCEPT ![t].slot_mappings = TakenMappings]

\* try_start_task_execution, the store after it
TryStartStore(mt, t) == IF ExecutionStarted(mt, t) THEN ExecutionStartedStore(mt, t) ELSE mt

\* MemoryBackend::try_start_task_execution
TryStartTaskExecution(t) ==
    /\ memory_tasks[t] # NoTask
    /\ memory_tasks' = TryStartStore(memory_tasks, t)
    /\ executing' = IF TryStartReturn(memory_tasks, t) = "Some"
                    THEN [executing EXCEPT ![t] = @ + 1] ELSE executing
    /\ dependencies_to_track' = IF TryStartReturn(memory_tasks, t) = "Some"
                                THEN [dependencies_to_track EXCEPT ![t] = {}]
                                ELSE dependencies_to_track
    /\ last' = LastExec("try_start_task_execution", None, t, NoId,
                        TryStartReturn(memory_tasks, t))
    /\ hist' = IF TryStartReturn(memory_tasks, t) = "Some"
               THEN [hist EXCEPT !.seen[t] = {}] ELSE hist
    /\ UNCHANGED <<scheduled, notified>>
    /\ UNCHANGED cacheRest

\* the result written to the output by the facade itself, whatever the state of the run
CompletedStore_WritesStale(mt, t, result, deps) ==
    ExecutionCompleted([mt EXCEPT ![t] = OutputWrite(@, result)], t, deps)

\* execution_completed called ahead of execution_result
CompletedStore_CompletesFirst(mt, t, result, deps) ==
    ExecutionResult(ExecutionCompleted(mt, t, deps), t, result)

\* a failure kept out of the output: execution_result is called for a value only
CompletedStore_SkipsFailure(mt, t, result, deps) ==
    IF result = "Err" THEN ExecutionCompleted(mt, t, deps)
    ELSE ExecutionCompleted(ExecutionResult(mt, t, result), t, deps)

\* task_execution_completed, the store after execution_result and execution_completed
CompletedStore(mt, t, result, deps) ==
    ExecutionCompleted(ExecutionResult(mt, t, result), t, deps)

\* the value of execution_completed dropped: never a re-schedule
CompletedReturn_Never(mt, t, result) == "false"

\* task_execution_completed, what it returns: the value of execution_completed
CompletedReturn(mt, t, result) ==
    IF ExecutionCompletedReturn(ExecutionResult(mt, t, result), t) THEN "true" ELSE "false"

\* MemoryBackend::task_execution_completed
TaskExecutionCompleted(t, result) ==
    /\ memory_tasks[t] # NoTask
    /\ executing[t] > 0
    /\ memory_tasks' = CompletedStore(memory_tasks, t, result, dependencies_to_track[t])
    /\ notified' = notified \cup ExecutionResultNotifies(memory_tasks, t, result)
    /\ executing' = [executing EXCEPT ![t] = @ - 1]
    /\ dependencies_to_track' = [dependencies_to_track EXCEPT ![t] = {}]
    /\ scheduled' = IF CompletedReturn(memory_tasks, t, result) = "true"
                    THEN scheduled \cup {t} ELSE scheduled
    /\ last' = LastExec("task_execution_completed", result, t, NoId,
                    CompletedReturn(memory_tasks, t, result))
    /\ hist' = LET h == IF ExecutionResultWakes(memory_tasks, t, result)
                         THEN Release(hist, TaskOutput(t)) ELSE hist
               IN  IF memory_tasks[t].state = "InProgress" /\ memory_tasks'[t].state = "Done"
                   THEN [h EXCEPT !.done[t] = result] ELSE h
    /\ UNCHANGED cacheRest

\* an invalidation that enqueues the task whether or not it is active
InvalidateTask_AlwaysSchedules(t) ==
    /\ memory_tasks[t] # NoTask
    /\ memory_tasks' = [memory_tasks EXCEPT ![t] = TaskInvalidate(@)]
    /\ notified' = notified \cup TaskInvalidateNotifies(memory_tasks[t])
    /\ scheduled' = IF memory_tasks[t].state = "Done" THEN scheduled \cup {t} ELSE scheduled
    /\ UNCHANGED <<executing, dependencies_to_track, last>>
    /\ UNCHANGED cacheState

\* MemoryBackend::invalidate_task
InvalidateTask(t) ==
    /\ memory_tasks[t] # NoTask
    /\ memory_tasks' = [memory_tasks EXCEPT ![t] = TaskInvalidate(@)]
    /\ notified' = notified \cup TaskInvalidateNotifies(memory_tasks[t])
    /\ scheduled' = IF TaskInvalidateSchedules(memory_tasks[t])
                    THEN scheduled \cup {t} ELSE scheduled
    /\ UNCHANGED <<executing, dependencies_to_track, last>>
    /\ UNCHANGED cacheState

\* the batch consumed without a call to dependent_slot_updated
NotifySlotChangeStore_Drops(mt, tasks) == mt

\* MemoryBackend::notify_slot_change: dependent_slot_updated on every task of the batch
NotifySlotChangeStore(mt, tasks) ==
    [t \in DOMAIN mt |-> IF t \in tasks THEN TaskInvalidate(mt[t]) ELSE mt[t]]

\* MemoryBackend::notify_slot_change on a batch the executor collected
NotifySlotChange(tasks) ==
    /\ tasks # {}
    /\ tasks \subseteq notified
    /\ tasks \subseteq Live(memory_tasks)
    /\ memory_tasks' = NotifySlotChangeStore(memory_tasks, tasks)
    /\ notified' = (notified \ tasks)
                   \cup UNION {TaskInvalidateNotifies(memory_tasks[t]) : t \in tasks}
    /\ scheduled' = scheduled \cup {t \in tasks : TaskInvalidateSchedules(memory_tasks[t])}
    /\ UNCHANGED <<executing, dependencies_to_track, last>>
    /\ UNCHANGED cacheState

\* try_get_output / Task::get_or_wait_output: the output of a Done task is handed to
\* func, any other state yields a listener
OutputReady(task) == task.state = "Done"

\* try_read_task_output, what it returns: the value output.read hands back, or the
\* listener of try_get_output
TryReadReturn(mt, task) == IF OutputReady(mt[task]) THEN mt[task].output ELSE Listener

\* MemoryBackend::try_read_task_output, run by the body of `reader`
TryReadTaskOutput(task, reader) ==
    /\ memory_tasks[task] # NoTask
    /\ executing[reader] > 0
    /\ task \in memory_tasks[reader].children
    /\ IF TryReadReturn(memory_tasks, task) # Listener
       THEN /\ dependencies_to_track' =
                  [dependencies_to_track EXCEPT ![reader] = @ \cup {TaskOutput(task)}]
            /\ memory_tasks' = [memory_tasks EXCEPT ![task].output_readers = @ \cup {reader}]
            /\ scheduled' = scheduled
            /\ hist' = [hist EXCEPT !.seen[reader] =
                           @ \cup {<<TaskOutput(task), TryReadReturn(memory_tasks, task)>>}]
       ELSE /\ dependencies_to_track' = dependencies_to_track
            /\ memory_tasks' = memory_tasks
            /\ scheduled' = IF memory_tasks[task].state = "Dirty"
                            THEN scheduled \cup {task} ELSE scheduled
            /\ hist' = hist
    /\ UNCHANGED <<notified, executing, last>>
    /\ UNCHANGED cacheRest

\* MemoryBackend::get_fresh_slot, run by the body of `task`
GetFreshSlot(task) ==
    /\ memory_tasks[task] # NoTask
    /\ executing[task] > 0
    /\ memory_tasks[task].ty \in PersistentTaskType
    /\ Len(memory_tasks[task].slots) < MaxSlots
    /\ memory_tasks' = [memory_tasks EXCEPT ![task].slots = Append(@, EmptySlot)]
    /\ UNCHANGED <<scheduled, last>>
    /\ UNCHANGED execState
    /\ UNCHANGED cacheState

\* the content stored and the readers cleared without going through Slot::assign
UpdateSlotStore_AlwaysAssigns(mt, task, index, content) ==
    [mt EXCEPT ![task].slots[index] = [content |-> content, readers |-> {}]]

\* update_task_slot, the store after with_slot_mut(index, slot.assign(content))
UpdateSlotStore(mt, task, index, content) ==
    [mt EXCEPT ![task].slots[index] = SlotAssign(@, content)]

\* MemoryBackend::update_task_slot, run by the body of `task`
UpdateTaskSlot(task, index, content) ==
    /\ memory_tasks[task] # NoTask
    /\ executing[task] > 0
    /\ index \in DOMAIN memory_tasks[task].slots
    /\ memory_tasks' = UpdateSlotStore(memory_tasks, task, index, content)
    /\ notified' = notified \cup SlotAssignReaders(memory_tasks[task].slots[index], content)
    /\ last' = LastExec("update_task_slot", content, task, index,
                        IF memory_tasks[task].slots[index].content = content
                        THEN "Equal" ELSE "Changed")
    /\ UNCHANGED <<scheduled, executing, dependencies_to_track>>
    /\ UNCHANGED cacheState

\* MemoryBackend::read_task_slot, run by the body of `reader`
ReadTaskSlot(task, index, reader) ==
    /\ memory_tasks[task] # NoTask
    /\ executing[reader] > 0
    /\ task \in memory_tasks[reader].children
    /\ index \in DOMAIN memory_tasks[task].slots
    /\ dependencies_to_track' =
          [dependencies_to_track EXCEPT ![reader] = @ \cup {TaskSlot(task, index)}]
    /\ IF memory_tasks[task].slots[index].content # None
       THEN memory_tasks' = [memory_tasks EXCEPT ![task].slots[index].readers = @ \cup {reader}]
       ELSE memory_tasks' = memory_tasks
    /\ hist' = [hist EXCEPT !.seen[reader] =
                   @ \cup {<<TaskSlot(task, index), memory_tasks[task].slots[index].content>>}]
    /\ UNCHANGED <<scheduled, notified, executing, last>>
    /\ UNCHANGED cacheRest

\* a backend holding an anchored root (id 1) and one cached persistent task (id 2) that
\* the root asked for: the state after create_transient_task and one
\* get_or_create_persistent_task
InitExec ==
    /\ memory_tasks = [t \in Ids |->
          IF t = 1 THEN [TaskNewTransient("Root") EXCEPT !.children = {2}]
          ELSE IF t = 2 THEN [TaskNewPersistent("Native") EXCEPT !.active_count = 1,
                                                                 !.parents = {1}]
          ELSE NoTask]
    /\ task_cache = [k \in PersistentTaskType |-> IF k = "Native" THEN 2 ELSE NoId]
    /\ id_factory = [free |-> {}, next |-> 3]
    /\ background_jobs = [j \in JobIds |-> NoJob]
    /\ background_job_id_factory = IdFactoryNew
    /\ job_running = [j \in JobIds |-> NoRun]
    /\ callers = [c \in Callers |-> IdleCaller]
    /\ scheduled = {1, 2}
    /\ notified = {}
    /\ executing = [t \in Ids |-> 0]
    /\ dependencies_to_track = [t \in Ids |-> {}]
    /\ last = [op |-> "get_or_create_persistent_task", key |-> "Native", task |-> NoId,
               ret |-> 2, out |-> "Ok", tick |-> FALSE]
    /\ hist = [NoHist EXCEPT !.calls = 1, !.roots = 1, !.missed["Native"] = 1, !.constructed["Native"] = 1,
                             !.inserted["Native"] = 1,
                             !.returned["Native"] = {2}]
    /\ NoChunkedVec

NextExec ==
    \/ \E t \in Ids : Schedule(t)
    \/ \E t \in Ids : TryStartTaskExecution(t)
    \/ \E t \in Ids, result \in Values : TaskExecutionCompleted(t, result)
    \/ \E t \in Ids : InvalidateTask(t)
    \/ \E tasks \in SUBSET Ids : NotifySlotChange(tasks)
    \/ \E task \in Ids, reader \in Ids : TryReadTaskOutput(task, reader)

SpecExec == InitExec /\ [][NextExec]_vars

\* executions whose bodies also publish and read slots
NextSlot ==
    \/ NextExec
    \/ \E task \in Ids : GetFreshSlot(task)
    \/ \E task \in Ids, index \in 1..MaxSlots, content \in Values :
          UpdateTaskSlot(task, index, content)
    \/ \E task \in Ids, index \in 1..MaxSlots, reader \in Ids :
          ReadTaskSlot(task, index, reader)

SpecSlot == InitExec /\ [][NextSlot]_vars

\* MemoryBackend::try_read_task_output called by the body of `current` with any known
\* task id as reader: add_dependency_to_current records the edge for the task that is
\* running, output.read(reader) registers the id it was given
TryReadTaskOutputAs(current, task, reader) ==
    /\ memory_tasks[task] # NoTask
    /\ memory_tasks[reader] # NoTask
    /\ executing[current] > 0
    /\ task \in memory_tasks[current].children
    /\ IF OutputReady(memory_tasks[task])
       THEN /\ dependencies_to_track' =
                  [dependencies_to_track EXCEPT ![current] = @ \cup {TaskOutput(task)}]
            /\ memory_tasks' = [memory_tasks EXCEPT ![task].output_readers = @ \cup {reader}]
            /\ scheduled' = scheduled
       ELSE /\ dependencies_to_track' = dependencies_to_track
            /\ memory_tasks' = memory_tasks
            /\ scheduled' = IF memory_tasks[task].state = "Dirty"
                            THEN scheduled \cup {task} ELSE scheduled
    /\ UNCHANGED <<notified, executing, last>>
    /\ UNCHANGED cacheState

\* MemoryBackend::read_task_slot called by the body of `current` with any known task
\* id as reader
ReadTaskSlotAs(current, task, index, reader) ==
    /\ memory_tasks[task] # NoTask
    /\ memory_tasks[reader] # NoTask
    /\ executing[current] > 0
    /\ task \in memory_tasks[current].children
    /\ index \in DOMAIN memory_tasks[task].slots
    /\ dependencies_to_track' =
          [dependencies_to_track EXCEPT ![current] = @ \cup {TaskSlot(task, index)}]
    /\ IF memory_tasks[task].slots[index].content # None
       THEN memory_tasks' = [memory_tasks EXCEPT ![task].slots[index].readers = @ \cup {reader}]
       ELSE memory_tasks' = memory_tasks
    /\ UNCHANGED <<scheduled, notified, executing, last>>
    /\ UNCHANGED cacheState

\* add_dependency_to_current called ahead of try_get_output, as read_task_slot does it
TryReadTaskOutputAwait_TracksFirst(task, reader) ==
    /\ memory_tasks[task] # NoTask
    /\ executing[reader] > 0
    /\ task \in memory_tasks[reader].children
    /\ dependencies_to_track' =
          [dependencies_to_track EXCEPT ![reader] = @ \cup {TaskOutput(task)}]
    /\ IF TryReadReturn(memory_tasks, task) # Listener
       THEN /\ memory_tasks' = [memory_tasks EXCEPT ![task].output_readers = @ \cup {reader}]
            /\ scheduled' = scheduled
            /\ hist' = hist
       ELSE /\ memory_tasks' = memory_tasks
            /\ scheduled' = IF memory_tasks[task].state = "Dirty"
                            THEN scheduled \cup {task} ELSE scheduled
            /\ hist' = Listen(hist, TaskOutput(task), reader)
    /\ UNCHANGED <<notified, executing, last>>
    /\ UNCHANGED cacheRest

\* MemoryBackend::try_read_task_output by a body that awaits the listener it is handed
\* while the output is not there
TryReadTaskOutputAwait(task, reader) ==
    /\ memory_tasks[task] # NoTask
    /\ executing[reader] > 0
    /\ task \in memory_tasks[reader].children
    /\ IF TryReadReturn(memory_tasks, task) # Listener
       THEN /\ dependencies_to_track' =
                  [dependencies_to_track EXCEPT ![reader] = @ \cup {TaskOutput(task)}]
            /\ memory_tasks' = [memory_tasks EXCEPT ![task].output_readers = @ \cup {reader}]
            /\ scheduled' = scheduled
            /\ hist' = hist
       ELSE /\ dependencies_to_track' = dependencies_to_track
            /\ memory_tasks' = memory_tasks
            /\ scheduled' = IF memory_tasks[task].state = "Dirty"
                            THEN scheduled \cup {task} ELSE scheduled
            /\ hist' = Listen(hist, TaskOutput(task), reader)
    /\ UNCHANGED <<notified, executing, last>>
    /\ UNCHANGED cacheRest

\* executions whose bodies suspend on an output that is not there yet
NextWake ==
    \/ \E t \in Ids : Schedule(t)
    \/ \E t \in Ids : TryStartTaskExecution(t)
    \/ \E t \in Ids, result \in Values : TaskExecutionCompleted(t, result)
    \/ \E t \in Ids : InvalidateTask(t)
    \/ \E tasks \in SUBSET Ids : NotifySlotChange(tasks)
    \/ \E task \in Ids, reader \in Ids : TryReadTaskOutputAwait(task, reader)

SpecWake == InitExec /\ [][NextWake]_vars

\* executions, slots and invalidations while the anchor of the root may be released; the
\* deactivation job it enqueues is not run yet
NextInval ==
    \/ \E t \in Ids : Schedule(t)
    \/ \E t \in Ids : TryStartTaskExecution(t)
    \/ \E t \in Ids, result \in Values : TaskExecutionCompleted(t, result)
    \/ \E t \in Ids : InvalidateTask(t)
    \/ \E task \in Ids, reader \in Ids : TryReadTaskOutput(task, reader)
    \/ \E task \in Ids : GetFreshSlot(task)
    \/ \E task \in Ids, index \in 1..MaxSlots, content \in Values :
          UpdateTaskSlot(task, index, content)
    \/ \E task \in Ids, index \in 1..MaxSlots, reader \in Ids :
          ReadTaskSlot(task, index, reader)
    \/ \E r \in Ids : DropRoot(r)

SpecInval == InitExec /\ [][NextInval]_vars

\* the facade called with reader ids of the caller's choosing; runs go stale through
\* notifications only
NextEdge ==
    \/ \E t \in Ids : Schedule(t)
    \/ \E t \in Ids : TryStartTaskExecution(t)
    \/ \E t \in Ids, result \in Values : TaskExecutionCompleted(t, result)
    \/ \E tasks \in SUBSET Ids : NotifySlotChange(tasks)
    \/ \E current \in Ids, task \in Ids, reader \in Ids : TryReadTaskOutputAs(current, task, reader)
    \/ \E task \in Ids : GetFreshSlot(task)
    \/ \E task \in Ids, index \in 1..MaxSlots, content \in Values :
          UpdateTaskSlot(task, index, content)
    \/ \E current \in Ids, task \in Ids, index \in 1..MaxSlots, reader \in Ids :
          ReadTaskSlotAs(current, task, index, reader)

SpecEdge == InitExec /\ [][NextEdge]_vars

\* the executor drops the future of a run of t without reporting a completion: the
\* backend is not called, the edges the body had read go with the future
DropFuture(t) ==
    /\ memory_tasks[t] # NoTask
    /\ executing[t] > 0
    /\ executing' = [executing EXCEPT ![t] = @ - 1]
    /\ dependencies_to_track' = [dependencies_to_track EXCEPT ![t] = {}]
    /\ UNCHANGED <<memory_tasks, scheduled, notified, last>>
    /\ UNCHANGED cacheState

\* executions whose futures the executor may drop
NextDrop ==
    \/ \E t \in Ids : Schedule(t)
    \/ \E t \in Ids : TryStartTaskExecution(t)
    \/ \E t \in Ids, result \in Values : TaskExecutionCompleted(t, result)
    \/ \E t \in Ids : InvalidateTask(t)
    \/ \E tasks \in SUBSET Ids : NotifySlotChange(tasks)
    \/ \E task \in Ids, reader \in Ids : TryReadTaskOutput(task, reader)
    \/ \E t \in Ids : DropFuture(t)

SpecDrop == InitExec /\ [][NextDrop]_vars

\* the executor keeps retrying: it takes every scheduling request, starts what it can
\* start, delivers its notifications, and invalidations keep arriving
FairDrop ==
    /\ SpecDrop
    /\ \A t \in Ids : /\ WF_vars(Schedule(t))
                      /\ WF_vars(TryStartTaskExecution(t))
                      /\ WF_vars(InvalidateTask(t))
    /\ WF_vars(\E tasks \in SUBSET Ids : NotifySlotChange(tasks))

\* MemoryBackend::try_read_task_output called by the body of `current` with a reader id
\* under which the store holds no task: with_task unwraps the entry of `task` only, the
\* reader id goes to output.read as it is
TryReadTaskOutputUnknown(current, task, reader) ==
    /\ memory_tasks[task] # NoTask
    /\ memory_tasks[reader] = NoTask
    /\ executing[current] > 0
    /\ task \in memory_tasks[current].children
    /\ IF OutputReady(memory_tasks[task])
       THEN /\ dependencies_to_track' =
                  [dependencies_to_track EXCEPT ![current] = @ \cup {TaskOutput(task)}]
            /\ memory_tasks' = [memory_tasks EXCEPT ![task].output_readers = @ \cup {reader}]
            /\ scheduled' = scheduled
       ELSE /\ dependencies_to_track' = dependencies_to_track
            /\ memory_tasks' = memory_tasks
            /\ scheduled' = IF memory_tasks[task].state = "Dirty"
                            THEN scheduled \cup {task} ELSE scheduled
    /\ last' = LastExec("try_read_task_output", None, task, reader,
                        TryReadReturn(memory_tasks, task))
    /\ UNCHANGED <<notified, executing>>
    /\ UNCHANGED cacheState

\* executions whose bodies also read with reader ids the backend does not know
NextUnknown ==
    \/ \E t \in Ids : Schedule(t)
    \/ \E t \in Ids : TryStartTaskExecution(t)
    \/ \E t \in Ids, result \in Values : TaskExecutionCompleted(t, result)
    \/ \E t \in Ids : InvalidateTask(t)
    \/ \E task \in Ids, reader \in Ids : TryReadTaskOutput(task, reader)
    \/ \E current \in Ids, task \in Ids, reader \in Ids :
          TryReadTaskOutputUnknown(current, task, reader)

SpecUnknown == InitExec /\ [][NextUnknown]_vars

\* anyhow::Result<RawVc>, the result of a body: a value, or the failure of the body
Failure == "Err"
Results == Values \cup {Failure}

\* executions whose bodies may fail
NextFail ==
    \/ \E t \in Ids : Schedule(t)
    \/ \E t \in Ids : TryStartTaskExecution(t)
    \/ \E t \in Ids, result \in Results : TaskExecutionCompleted(t, result)
    \/ \E t \in Ids : InvalidateTask(t)
    \/ \E tasks \in SUBSET Ids : NotifySlotChange(tasks)
    \/ \E task \in Ids, reader \in Ids : TryReadTaskOutput(task, reader)

SpecFail == InitExec /\ [][NextFail]_vars

\* an untracked read that hands out the output whatever the state of the task
TryReadUntrackedReturn_Stale(mt, task) == mt[task].output

\* try_read_task_output_untracked, what it returns: the value output.read_untracked
\* hands back, or the listener of try_get_output
TryReadUntrackedReturn(mt, task) ==
    IF OutputReady(mt[task]) THEN mt[task].output ELSE Listener

\* MemoryBackend::try_read_task_output_untracked: no reader is named and no dependency
\* is recorded; try_get_output demands a Dirty task as it does for a tracked read
TryReadTaskOutputUntracked(task) ==
    /\ memory_tasks[task] # NoTask
    /\ scheduled' = IF ~OutputReady(memory_tasks[task]) /\ memory_tasks[task].state = "Dirty"
                    THEN scheduled \cup {task} ELSE scheduled
    /\ last' = LastExec("try_read_task_output_untracked", None, task, NoId,
                        TryReadUntrackedReturn(memory_tasks, task))
    /\ UNCHANGED <<memory_tasks, notified, executing, dependencies_to_track>>
    /\ UNCHANGED cacheState

\* read_task_slot_untracked, what it returns: the content slot.read_content_untracked
\* hands back, empty or not
ReadSlotUntrackedReturn(mt, task, index) == mt[task].slots[index].content

\* MemoryBackend::read_task_slot_untracked
ReadTaskSlotUntracked(task, index) ==
    /\ memory_tasks[task] # NoTask
    /\ index \in DOMAIN memory_tasks[task].slots
    /\ last' = LastExec("read_task_slot_untracked", None, task, index,
                        ReadSlotUntrackedReturn(memory_tasks, task, index))
    /\ UNCHANGED <<memory_tasks, scheduled, notified, executing, dependencies_to_track>>
    /\ UNCHANGED cacheState

\* executions with tracked and untracked reads of outputs and slots
NextUntracked ==
    \/ \E t \in Ids : Schedule(t)
    \/ \E t \in Ids : TryStartTaskExecution(t)
    \/ \E t \in Ids, result \in Values : TaskExecutionCompleted(t, result)
    \/ \E task \in Ids, reader \in Ids : TryReadTaskOutput(task, reader)
    \/ \E task \in Ids : GetFreshSlot(task)
    \/ \E task \in Ids, index \in 1..MaxSlots, content \in Values :
          UpdateTaskSlot(task, index, content)
    \/ \E task \in Ids, index \in 1..MaxSlots, reader \in Ids :
          ReadTaskSlot(task, index, reader)
    \/ \E task \in Ids : TryReadTaskOutputUntracked(task)
    \/ \E task \in Ids, index \in 1..MaxSlots : ReadTaskSlotUntracked(task, index)

SpecUntracked == InitExec /\ [][NextUntracked]_vars

\* a read that records the dependency inside the slot access, once the content is there
ReadTaskSlotDependencies_AfterRead(deps, mt, task, index, reader) ==
    IF /\ mt[task] # NoTask
       /\ index \in DOMAIN mt[task].slots
       /\ mt[task].slots[index].content # None
    THEN [deps EXCEPT ![reader] = @ \cup {TaskSlot(task, index)}]
    ELSE deps

\* read_task_slot, its first statement: add_dependency_to_current(RawVc::TaskSlot(task,
\* index)) for the task that is running, ahead of with_task
ReadTaskSlotDependencies(deps, mt, task, index, reader) ==
    [deps EXCEPT ![reader] = @ \cup {TaskSlot(task, index)}]

\* MemoryBackend::read_task_slot, run by the body of `reader`, with the outcome of the
\* call: the content of the slot, empty or not, or the panic of with_task on a task
\* that is not in the store
ReadTaskSlotCall(task, index, reader) ==
    /\ executing[reader] > 0
    /\ dependencies_to_track' =
          ReadTaskSlotDependencies(dependencies_to_track, memory_tasks, task, index, reader)
    /\ IF memory_tasks[task] = NoTask
       THEN /\ memory_tasks' = memory_tasks
            /\ hist' = hist
            /\ last' = LastExec("read_task_slot", reader, task, index, "Panic")
       ELSE /\ task \in memory_tasks[reader].children
            /\ index \in DOMAIN memory_tasks[task].slots
            /\ IF memory_tasks[task].slots[index].content # None
               THEN memory_tasks' =
                        [memory_tasks EXCEPT ![task].slots[index].readers = @ \cup {reader}]
               ELSE memory_tasks' = memory_tasks
            /\ hist' = [hist EXCEPT !.seen[reader] =
                           @ \cup {<<TaskSlot(task, index), memory_tasks[task].slots[index].content>>}]
            /\ last' = LastExec("read_task_slot", reader, task, index,
                                memory_tasks[task].slots[index].content)
    /\ UNCHANGED <<scheduled, notified, executing>>
    /\ UNCHANGED cacheRest

\* executions whose bodies publish slots and read slots, of tasks in the store or not
NextSlotRead ==
    \/ \E t \in Ids : Schedule(t)
    \/ \E t \in Ids : TryStartTaskExecution(t)
    \/ \E t \in Ids, result \in Values : TaskExecutionCompleted(t, result)
    \/ \E task \in Ids : GetFreshSlot(task)
    \/ \E task \in Ids, index \in 1..MaxSlots, content \in Values :
          UpdateTaskSlot(task, index, content)
    \/ \E task \in Ids, index \in 1..MaxSlots, reader \in Ids :
          ReadTaskSlotCall(task, index, reader)

SpecSlotRead == InitExec /\ [][NextSlotRead]_vars

\* the reuse of the id placed after the if, where both arms reach it
RunBackgroundJobNone_Reuses(j) ==
    /\ background_jobs[j] = NoJob
    /\ background_job_id_factory' = IdFactoryReuse(background_job_id_factory, j)
    /\ last' = Last("run_background_job", None, NoId, j, "NoJob")
    /\ UNCHANGED execState
    /\ UNCHANGED <<memory_tasks, task_cache, id_factory, background_jobs, job_running,
                   callers, scheduled, hist>>

\* run_background_job, the else arm: background_jobs.take(*id) found no job, the future
\* handed back is empty
RunBackgroundJobNone(j) ==
    /\ background_jobs[j] = NoJob
    /\ background_job_id_factory' = background_job_id_factory
    /\ last' = Last("run_background_job", None, NoId, j, "NoJob")
    /\ UNCHANGED execState
    /\ UNCHANGED <<memory_tasks, task_cache, id_factory, background_jobs, job_running,
                   callers, scheduled, hist>>

\* the cache and the background jobs under two roots, with run_background_job called on
\* any job id, stored or not
NextNoJob ==
    \/ NextGC
    \/ \E j \in JobIds : RunBackgroundJobNone(j)

SpecNoJob == InitGC /\ [][NextNoJob]_vars

\* a connect_child that runs the activation again on an edge that is already there
ConnectTaskChildStore_Reconnects(mt, parent, child) ==
    LET mt0 == [mt EXCEPT ![parent].children = @ \cup {child}]
        mt1 == [mt0 EXCEPT ![child].parents = @ \cup {parent}]
    IN  IF mt[parent].active_count > 0
        THEN Activate(mt1, Visit(mt1, {child}, {}, 0))
        ELSE mt1

\* connect_task_child, the store after with_task(parent, parent.connect_child(child))
ConnectTaskChildStore(mt, parent, child) == ConnectChild(mt, parent, child)

\* MemoryBackend::connect_task_child on two tasks of the store
ConnectTaskChild(parent, child) ==
    /\ memory_tasks[parent] # NoTask
    /\ memory_tasks[child] # NoTask
    /\ memory_tasks' = ConnectTaskChildStore(memory_tasks, parent, child)
    /\ scheduled' = scheduled \cup ConnectChildSchedules(memory_tasks, parent, child)
    /\ last' = LastExec("connect_task_child", None, parent, child,
                        IF child \in memory_tasks[parent].children THEN "Present"
                        ELSE "Inserted")
    /\ UNCHANGED execState
    /\ UNCHANGED cacheState

\* a backend holding an anchored root (id 1) and two cached persistent tasks (ids 2 and
\* 3) that no task has as a child: the root they were created under was collected and
\* its id went to a new root
InitConnect ==
    /\ memory_tasks = [t \in Ids |->
          IF t = 1 THEN TaskNewTransient("Root")
          ELSE IF t = 2 THEN TaskNewPersistent("Native")
          ELSE TaskNewPersistent("ResolveTrait")]
    /\ task_cache = [k \in PersistentTaskType |-> IF k = "Native" THEN 2 ELSE 3]
    /\ id_factory = [free |-> {}, next |-> 4]
    /\ background_jobs = [j \in JobIds |-> NoJob]
    /\ background_job_id_factory = [free |-> {1, 2}, next |-> 3]
    /\ job_running = [j \in JobIds |-> NoRun]
    /\ callers = [c \in Callers |-> IdleCaller]
    /\ scheduled = {1}
    /\ notified = {}
    /\ executing = [t \in Ids |-> 0]
    /\ dependencies_to_track = [t \in Ids |-> {}]
    /\ last = [op |-> "create_transient_task", key |-> "Root", task |-> NoId,
               ret |-> 1, out |-> None, tick |-> FALSE]
    /\ hist = [NoHist EXCEPT !.roots = 1]
    /\ NoChunkedVec

\* edges inserted between the tasks of the store in any order, cycles and loops included
NextConnect ==
    \E parent \in Ids, child \in Ids : ConnectTaskChild(parent, child)

SpecConnect == InitConnect /\ [][NextConnect]_vars

\* ------------------------------------------------------------- ChunkedVec
\* utils/chunked_vec.rs.  The items of a vector are never inspected: the k-th push
\* pushes the item k.
MaxPush == 60
\* the width of usize, narrowed to what the integers of the checker hold
UsizeBits == 30
UsizeMax == 2^UsizeBits - 1

\* a subtraction of two usize values: with overflow checks an underflow panics,
\* without them it wraps
SubUsize(a, b, overflow_checks) ==
    IF a >= b THEN a - b
    ELSE IF overflow_checks THEN Panic
    ELSE a - b + UsizeMax + 1

\* fn chunk_size: 8 << chunk_index
chunk_size(chunk_index) == (8 * 2^chunk_index) % (UsizeMax + 1)

\* fn cummulative_chunk_size: (8 << (chunk_index + 1)) - 8
cummulative_chunk_size(chunk_index) ==
    ((8 * 2^(chunk_index + 1)) % (UsizeMax + 1)) - 8

\* Vec::with_capacity(capacity): the capacity asked for, and usize::MAX for a
\* zero-sized element type, which never allocates
VecWithCapacity(capacity, zero_sized) ==
    [items |-> << >>, capacity |-> IF zero_sized THEN UsizeMax ELSE capacity]

\* the greatest index of a chunk that is not empty, 0 if there is none
LastNonEmpty(cs) ==
    LET S == {i \in 1..Len(cs) : cs[i].items # << >>}
    IN  IF S = {} THEN 0 ELSE CHOOSE i \in S : \A j \in S : j <= i

\* ChunkedVec::len
ChunkedVecLen(cs, b) ==
    LET i == LastNonEmpty(cs)
    IN  IF i = 0 THEN 0
        ELSE LET free == cs[i].capacity - Len(cs[i].items)
             IN  SubUsize(cummulative_chunk_size(i - 1), free, b.overflow_checks)

\* ChunkedVec::push
ChunkedVecPush(cs, item, b) ==
    IF cs # << >> /\ Len(cs[Len(cs)].items) < cs[Len(cs)].capacity
    THEN [cs EXCEPT ![Len(cs)].items = Append(@, item)]
    ELSE Append(cs, [VecWithCapacity(chunk_size(Len(cs)), b.zero_sized) EXCEPT !.items = <<item>>])

\* map_or(false, ..): a vector without a chunk is reported as not empty
ChunkedVecIsEmpty_DefaultFalse(cs) == IF cs = << >> THEN FALSE ELSE cs[1].items = << >>

\* ChunkedVec::is_empty
ChunkedVecIsEmpty(cs) == IF cs = << >> THEN TRUE ELSE cs[1].items = << >>

\* chunks.iter().flat_map(|chunk| chunk.iter()): the items of the chunks, chunk by chunk
RECURSIVE FlatMap(_)
FlatMap(cs) == IF cs = << >> THEN << >> ELSE Head(cs).items \o FlatMap(Tail(cs))

\* the ExactSizeIter that iter and into_iter build: the flattened chunks and self.len()
ExactSizeIterNew(kind, cs, b) ==
    IF ChunkedVecLen(cs, b) = Panic THEN [kind |-> "Panic", iter |-> << >>, len |-> 0]
    ELSE [kind |-> kind, iter |-> FlatMap(cs), len |-> ChunkedVecLen(cs, b)]

\* ExactSizeIter::next on an inner iterator that has an item: the item is handed out
\* and len goes down by one
ExactSizeIterNext(it, b) ==
    IF SubUsize(it.len, 1, b.overflow_checks) = Panic
    THEN [kind |-> "Panic", iter |-> << >>, len |-> 0]
    ELSE [it EXCEPT !.iter = Tail(@), !.len = SubUsize(@, 1, b.overflow_checks)]

\* ChunkedVec::new, for an element type that is zero-sized or not, in a build with or
\* without overflow checks; the backend is as MemoryBackend::new leaves it
InitChunkedVec ==
    /\ memory_tasks = [t \in Ids |-> NoTask]
    /\ task_cache = [k \in PersistentTaskType |-> NoId]
    /\ id_factory = IdFactoryNew
    /\ background_jobs = [j \in JobIds |-> NoJob]
    /\ background_job_id_factory = IdFactoryNew
    /\ job_running = [j \in JobIds |-> NoRun]
    /\ callers = [c \in Callers |-> IdleCaller]
    /\ scheduled = {}
    /\ notified = {}
    /\ executing = [t \in Ids |-> 0]
    /\ dependencies_to_track = [t \in Ids |-> {}]
    /\ last = [op |-> "new", key |-> None, task |-> NoId, ret |-> NoId, out |-> None, tick |-> FALSE]
    /\ hist = NoHist
    /\ chunks = << >>
    /\ exact_size_iter = NoIter
    /\ pushed = << >>
    /\ yielded = << >>
    /\ build \in [zero_sized : BOOLEAN, overflow_checks : BOOLEAN]

\* ChunkedVec::push on a vector that is neither borrowed by an iterator nor consumed
Push ==
    /\ exact_size_iter = NoIter
    /\ Len(pushed) < MaxPush
    /\ chunks' = ChunkedVecPush(chunks, Len(pushed) + 1, build)
    /\ pushed' = Append(pushed, Len(pushed) + 1)
    /\ UNCHANGED <<exact_size_iter, yielded, build>>
    /\ UNCHANGED backendState

\* ChunkedVec::iter: the iterator borrows the vector
Iter ==
    /\ exact_size_iter = NoIter
    /\ exact_size_iter' = ExactSizeIterNew("iter", chunks, build)
    /\ UNCHANGED <<chunks, pushed, yielded, build>>
    /\ UNCHANGED backendState

\* ChunkedVec::into_iter: the iterator takes the chunks out of the vector
IntoIter ==
    /\ exact_size_iter = NoIter
    /\ exact_size_iter' = ExactSizeIterNew("into_iter", chunks, build)
    /\ chunks' = << >>
    /\ UNCHANGED <<pushed, yielded, build>>
    /\ UNCHANGED backendState

\* ExactSizeIter::next while the inner iterator has an item
IterNext ==
    /\ exact_size_iter.kind \in {"iter", "into_iter"}
    /\ exact_size_iter.iter # << >>
    /\ exact_size_iter' = ExactSizeIterNext(exact_size_iter, build)
    /\ yielded' = Append(yielded, Head(exact_size_iter.iter))
    /\ UNCHANGED <<chunks, pushed, build>>
    /\ UNCHANGED backendState

\* the iterator handed out by iter is dropped: the borrow of the vector ends
IterDrop ==
    /\ exact_size_iter.kind = "iter"
    /\ exact_size_iter' = NoIter
    /\ yielded' = << >>
    /\ UNCHANGED <<chunks, pushed, build>>
    /\ UNCHANGED backendState

NextChunkedVec ==
    \/ Push
    \/ Iter
    \/ IntoIter
    \/ IterNext
    \/ IterDrop

SpecChunkedVec == InitChunkedVec /\ [][NextChunkedVec]_vars

\* the same vector for element types of non-zero size only
InitSizedVec == InitChunkedVec /\ ~build.zero_sized

SpecSizedVec == InitSizedVec /\ [][NextChunkedVec]_vars

\* the vector is there to be asked: it has not been consumed by into_iter, and no call
\* on it has panicked
VecAlive == exact_size_iter.kind \in {"None", "iter"}

\* ------------------------------------------------------- diamond scenario
\* a backend holding five tasks: root 1 reads D (2), D reads B (3) then C (4), B and C
\* read A (5); the reads of each body, in the order it performs them
DiamondIds == 1..5
DiamondReads ==
    [t \in DiamondIds |->
        CASE t = 1 -> <<2>> [] t = 2 -> <<3, 4>> [] t = 3 -> <<5>> [] t = 4 -> <<5>>
          [] OTHER -> <<>>]
DiamondKey == [t \in 2..5 |-> CASE t = 2 -> "Native:D" [] t = 3 -> "Native:B"
                                [] t = 4 -> "Native:C" [] OTHER -> "Native:A"]

Range(s) == {s[i] : i \in DOMAIN s}

\* the state after every task of the diamond ran once on the old input "a" and the
\* executor went idle: every task Done under epoch 1, every read registered
InitDiamond ==
    /\ memory_tasks = [t \in DiamondIds |->
          [(IF t = 1 THEN TaskNewTransient("Root") ELSE TaskNewPersistent(DiamondKey[t]))
              EXCEPT !.state = "Done", !.epoch = 1, !.output = "a",
                     !.children = Range(DiamondReads[t]),
                     !.parents = {r \in DiamondIds : t \in Range(DiamondReads[r])},
                     !.dependencies = {TaskOutput(d) : d \in Range(DiamondReads[t])},
                     !.output_readers = {r \in DiamondIds : t \in Range(DiamondReads[r])},
                     !.active_count = IF t = 5 THEN 2 ELSE 1]]
    /\ task_cache = [k \in Range(DiamondKey) |-> CHOOSE t \in 2..5 : DiamondKey[t] = k]
    /\ id_factory = [free |-> {}, next |-> 6]
    /\ background_jobs = [j \in JobIds |-> NoJob]
    /\ background_job_id_factory = IdFactoryNew
    /\ job_running = [j \in JobIds |-> NoRun]
    /\ callers = [c \in Callers |-> IdleCaller]
    /\ scheduled = {}
    /\ notified = {}
    /\ executing = [t \in DiamondIds |-> 0]
    /\ dependencies_to_track = [t \in DiamondIds |-> {}]
    /\ last = [op |-> "task_execution_completed", key |-> "a", task |-> 1, ret |-> NoId,
               out |-> "false", tick |-> FALSE]
    /\ hist = [NoHist EXCEPT !.done = [t \in DiamondIds |-> "a"],
                             !.seen = [t \in DiamondIds |->
                                         {<<TaskOutput(d), "a">> : d \in Range(DiamondReads[t])}]]
    /\ NoChunkedVec

\* the reads the running body of t still has to perform
DiamondPending(t) ==
    SelectSeq(DiamondReads[t], LAMBDA d : TaskOutput(d) \notin dependencies_to_track[t])

\* the body of t performs its next read; it retries a read that was pending
DiamondRead(t) ==
    /\ executing[t] > 0
    /\ DiamondPending(t) # <<>>
    /\ TryReadTaskOutput(Head(DiamondPending(t)), t)

\* the value the run of t was handed for its dependency d
DiamondSeen(t, d) == CHOOSE v \in Values : <<TaskOutput(d), v>> \in hist.seen[t]

\* what the body of t computes: A yields the old input "a" in its first run and the
\* new input "b" after the change, B, C and the root pass on what they read, D yields
\* "b" when both of its inputs are "b"
DiamondResult(t) ==
    CASE t = 5 -> IF memory_tasks[5].epoch = 1 THEN "a" ELSE "b"
      [] t = 2 -> IF DiamondSeen(2, 3) = "b" /\ DiamondSeen(2, 4) = "b" THEN "b" ELSE "a"
      [] OTHER -> DiamondSeen(t, Head(DiamondReads[t]))

\* the body of t has performed its reads and the executor reports its result
DiamondComplete(t) ==
    /\ executing[t] > 0
    /\ DiamondPending(t) = <<>>
    /\ TaskExecutionCompleted(t, DiamondResult(t))

\* the input of A changes: A is invalidated, once
DiamondChange ==
    /\ memory_tasks[5].state = "Done"
    /\ memory_tasks[5].epoch = 1
    /\ InvalidateTask(5)

NextDiamond ==
    \/ DiamondChange
    \/ \E t \in DiamondIds : Schedule(t)
    \/ \E t \in DiamondIds : TryStartTaskExecution(t)
    \/ \E t \in DiamondIds : DiamondRead(t)
    \/ \E t \in DiamondIds : DiamondComplete(t)
    \/ \E tasks \in SUBSET DiamondIds : NotifySlotChange(tasks)

SpecDiamond == InitDiamond /\ [][NextDiamond]_vars

\* ------------------------------------------------------------------ claims
AllIdle == \A c \in Callers : callers[c].pc = "idle"

\* the callers of the slow pass that hold a tentative task for fingerprint k
Tentative(k) ==
    {c \in Callers : callers[c].task_type = k /\ callers[c].pc \in {"try_insert", "discard"}}

\* the callers that missed the cache for k and have not yet constructed their task
Creating(k) == {c \in Callers : callers[c].task_type = k /\ callers[c].pc = "create"}

Cached(k) == IF task_cache[k] # NoId THEN 1 ELSE 0

\* C1: all calls of get_or_create_persistent_task for a fingerprint that ran with no
\* removal in between were handed the same id, and that id is the one entry the
\* cache holds for the fingerprint.
C1_SameIdReturned ==
    \A k \in PersistentTaskType :
        /\ Cardinality(hist.returned[k]) <= 1
        /\ hist.returned[k] # {} => hist.returned[k] = {task_cache[k]}

\* two callers raced on a fingerprint, both constructed a task, both have returned
C1_Witness ==
    \E k \in PersistentTaskType :
        /\ AllIdle
        /\ hist.constructed[k] = 2
        /\ hist.discarded[k] = 1
        /\ Cardinality(hist.returned[k]) = 1

\* C2 as stated: one Task::new_* invocation per fingerprint, whatever the calls.
C2_OneConstructorCall ==
    \A k \in PersistentTaskType : hist.constructed[k] <= 1

\* C2 as amended: a constructor is invoked once by each call that missed the cache in
\* its fast pass and by no other call; every task constructed for a fingerprint is
\* inserted into the cache by its caller or discarded by the caller that lost the race.
C2_OneConstructorPerMiss ==
    \A k \in PersistentTaskType :
        /\ hist.constructed[k] + Cardinality(Creating(k)) = hist.missed[k]
        /\ hist.constructed[k] = hist.inserted[k] + hist.discarded[k] + Cardinality(Tentative(k))
        /\ Cached(k) <= hist.inserted[k]

\* a call that hit the cache and a race that was lost have both happened
C2_Witness ==
    \E k \in PersistentTaskType :
        /\ AllIdle
        /\ hist.calls = 3
        /\ hist.missed[k] = 2
        /\ hist.constructed[k] = 2
        /\ hist.discarded[k] = 1

\* C3: the loser of an insertion race leaves nothing behind: the ids handed out are
\* those of the store, every persistent task of the store is the cached task of its
\* fingerprint or the tentative task of a caller still in its slow pass, and a caller
\* about to return holds the cached (the winner's) id.
C3_LoserLeavesNothing ==
    /\ Allocated(id_factory) = Live(memory_tasks)
    /\ \A t \in Live(memory_tasks) :
          memory_tasks[t].ty \in PersistentTaskType =>
              \/ task_cache[memory_tasks[t].ty] = t
              \/ \E c \in Tentative(memory_tasks[t].ty) : callers[c].id = t
    /\ \A c \in Callers :
          callers[c].pc = "connect" => callers[c].result = task_cache[callers[c].task_type]

\* a loser has discarded its task and its id is free again
C3_Witness ==
    \E k \in PersistentTaskType :
        /\ AllIdle
        /\ hist.discarded[k] = 1
        /\ id_factory.free # {}
        /\ Cardinality(hist.returned[k]) = 1

\* C4: the id get_or_create_persistent_task hands back is the live task of the
\* fingerprint asked for, also when RemoveTasks jobs run between its steps.
C4_ReturnedIdIsLive ==
    last.op = "get_or_create_persistent_task" => last.out # "Reassigned"

\* the facade call the step from this state to the next one made, on task t
Called(op, t) == last'.op = op /\ last'.task = t /\ last'.tick # last.tick

Running(task) == task.state \in {"InProgress", "InProgressDirty"}

\* C5: a task has at most one execution in progress: the execution specs handed out for
\* it and not yet completed number at most one, and there is one exactly while the
\* task is InProgress or InProgressDirty.
C5_AtMostOneExecution ==
    \A t \in Ids :
        /\ executing[t] <= 1
        /\ executing[t] = 1 <=> (memory_tasks[t] # NoTask /\ Running(memory_tasks[t]))

\* try_start_task_execution was called again on a task that is executing, and refused
C5_Witness ==
    /\ last.op = "try_start_task_execution"
    /\ last.out = "None"
    /\ executing[last.task] = 1
    /\ memory_tasks[last.task].epoch = 1

\* C6: try_start_task_execution on a task that is not Scheduled returns None and leaves
\* its state, epoch and stored slot mappings as they were; on a Scheduled task it
\* returns an execution spec and the task is InProgress under the next epoch.
C6_TryStartOnlyScheduled ==
    [][\A t \in Ids :
          Called("try_start_task_execution", t) =>
              IF memory_tasks[t].state = "Scheduled"
              THEN /\ last'.out = "Some"
                   /\ memory_tasks'[t].state = "InProgress"
                   /\ memory_tasks'[t].epoch = memory_tasks[t].epoch + 1
              ELSE /\ last'.out = "None"
                   /\ memory_tasks'[t].state = memory_tasks[t].state
                   /\ memory_tasks'[t].epoch = memory_tasks[t].epoch
                   /\ memory_tasks'[t].slot_mappings = memory_tasks[t].slot_mappings]_vars

\* try_start_task_execution was refused on a Done task whose slot mappings are stored
C6_Witness ==
    /\ last.op = "try_start_task_execution"
    /\ last.out = "None"
    /\ memory_tasks[last.task].state = "Done"
    /\ ~memory_tasks[last.task].slot_mappings.taken

\* C7: task_execution_completed returns true exactly when the run was invalidated: an
\* InProgressDirty task becomes Dirty and true is returned, an InProgress task becomes
\* Done and false is returned.
C7_CompletedReturnsReschedule ==
    [][\A t \in Ids :
          Called("task_execution_completed", t) =>
              /\ last'.out = "true" <=> memory_tasks[t].state = "InProgressDirty"
              /\ memory_tasks[t].state = "InProgressDirty" => memory_tasks'[t].state = "Dirty"
              /\ memory_tasks[t].state = "InProgress" =>
                    (memory_tasks'[t].state = "Done" /\ last'.out = "false")]_vars

\* a run that was invalidated has completed: true was returned and the task is Dirty
C7_Witness ==
    /\ last.op = "task_execution_completed"
    /\ last.out = "true"
    /\ memory_tasks[last.task].state = "Dirty"
    /\ last.task \in scheduled

\* C8: the completion of a run that was invalidated while in progress leaves the output
\* of the task and the readers of the output as they were.
C8_StaleResultDiscarded ==
    [][\A t \in Ids :
          (Called("task_execution_completed", t) /\ memory_tasks[t].state = "InProgressDirty") =>
              /\ memory_tasks'[t].output = memory_tasks[t].output
              /\ memory_tasks'[t].output_readers = memory_tasks[t].output_readers
              /\ notified' = notified]_vars

\* an invalidated second run has completed with a result that differs from the output
\* the first run left, and a reader still holds that output
C8_Witness ==
    /\ last.op = "task_execution_completed"
    /\ last.out = "true"
    /\ memory_tasks[last.task].output \in Values
    /\ memory_tasks[last.task].output # last.key
    /\ memory_tasks[last.task].output_readers # {}

\* C9: a Done task has a populated output.
C9_DoneHasOutput ==
    \A t \in Live(memory_tasks) : memory_tasks[t].state = "Done" => memory_tasks[t].output \in Values

\* a task is Done after its second run and a reader has read its output
C9_Witness ==
    \E t \in Live(memory_tasks) :
        /\ memory_tasks[t].state = "Done"
        /\ memory_tasks[t].epoch = MaxEpoch
        /\ memory_tasks[t].output_readers # {}

\* C10: a completion whose result equals the output, and an update_task_slot whose
\* content equals the content of the slot, change neither the value stored nor its
\* readers, notify no reader, and put no other task into another state or on the queue.
C10_EqualWriteIsNoOp ==
    [][\A t \in Ids :
          /\ (/\ Called("task_execution_completed", t)
              /\ memory_tasks[t].state = "InProgress"
              /\ memory_tasks[t].output = last'.key) =>
                 /\ memory_tasks'[t].output = memory_tasks[t].output
                 /\ memory_tasks'[t].output_readers = memory_tasks[t].output_readers
                 /\ notified' = notified
                 /\ scheduled' = scheduled
                 /\ \A u \in Ids \ {t} : memory_tasks'[u].state = memory_tasks[u].state
          /\ (/\ Called("update_task_slot", t)
              /\ memory_tasks[t].slots[last'.ret].content = last'.key) =>
                 /\ memory_tasks' = memory_tasks
                 /\ notified' = notified
                 /\ scheduled' = scheduled]_vars

\* a slot that has a reader was written with the content it held
C10_Witness ==
    /\ last.op = "update_task_slot"
    /\ last.out = "Equal"
    /\ memory_tasks[last.task].slots[last.ret].content = last.key
    /\ memory_tasks[last.task].slots[last.ret].readers # {}

\* C11: a write of a changed value to an output (by task_execution_completed) or to a
\* slot (by update_task_slot) stores the value, empties the reader set of the cell and
\* puts exactly the readers registered before the write into the notifications; and
\* notify_slot_change delivers the notification to every task of its batch.
C11_ChangedWriteNotifiesReaders ==
    [][/\ \A t \in Ids :
          /\ (/\ Called("task_execution_completed", t)
              /\ memory_tasks[t].state = "InProgress"
              /\ memory_tasks[t].output # last'.key) =>
                 /\ memory_tasks'[t].output = last'.key
                 /\ memory_tasks'[t].output_readers \cap memory_tasks[t].output_readers = {}
                 /\ notified' = notified \cup memory_tasks[t].output_readers
          /\ (/\ Called("update_task_slot", t)
              /\ memory_tasks[t].slots[last'.ret].content # last'.key) =>
                 /\ memory_tasks'[t].slots[last'.ret] = [content |-> last'.key, readers |-> {}]
                 /\ notified' = notified \cup memory_tasks[t].slots[last'.ret].readers
       /\ \A r \in notified \ notified' :
             memory_tasks'[r] = TaskInvalidate(memory_tasks[r])]_vars

\* a slot that had a reader was written with a changed content: the slot has no reader
\* left and the task that depends on it is among the notified
C11_Witness ==
    /\ last.op = "update_task_slot"
    /\ last.out = "Changed"
    /\ memory_tasks[last.task].slots[last.ret].content = last.key
    /\ memory_tasks[last.task].slots[last.ret].readers = {}
    /\ \E r \in notified : TaskSlot(last.task, last.ret) \in memory_tasks[r].dependencies

\* the dependency set of a task: the edges of its most recent completed run and the
\* edges its current run has recorded so far
DependencySet(t) == memory_tasks[t].dependencies \cup dependencies_to_track[t]

\* the reader set an edge names
Readers(e) ==
    IF memory_tasks[e.task] = NoTask THEN {}
    ELSE IF e.kind = "TaskOutput" THEN memory_tasks[e.task].output_readers
    ELSE IF e.index \in DOMAIN memory_tasks[e.task].slots
    THEN memory_tasks[e.task].slots[e.index].readers
    ELSE {}

\* the edges that name a reader set
Edges ==
    {TaskOutput(w) : w \in Live(memory_tasks)} \cup
    UNION {{TaskSlot(w, i) : i \in DOMAIN memory_tasks[w].slots} : w \in Live(memory_tasks)}

C13_ReaderHasEdge ==
    \A e \in Edges : \A r \in Readers(e) : e \in DependencySet(r)

\* C14: a task whose active_count is 0 is not in the memoization cache.
C14_InactiveNotCached ==
    \A k \in PersistentTaskType :
        task_cache[k] # NoId => memory_tasks[task_cache[k]].active_count > 0

\* the step from this state to the next one is a RemoveTasks job removing task t
RemovedByJob(t) ==
    /\ memory_tasks[t] # NoTask
    /\ memory_tasks'[t] = NoTask
    /\ \E j \in JobIds : job_running[j].freeing # t /\ job_running'[j].freeing = t

\* C15: a RemoveTasks job removes a task only when its active_count is 0 and no reader
\* set of any task contains it.
C15_RemovalSafety ==
    [][\A t \in Ids :
          RemovedByJob(t) =>
              /\ memory_tasks[t].active_count = 0
              /\ \A w \in Live(memory_tasks) : t \notin AllReaders(memory_tasks[w])]_vars

\* the tasks that a path of the children graph reaches from the tasks of S
RECURSIVE Reach(_, _)
Reach(mt, S) ==
    LET more == UNION {mt[t].children \cap Live(mt) : t \in S}
    IN  IF more \subseteq S THEN S ELSE Reach(mt, S \cup more)

\* the tasks reachable from a root that is anchored now
Reachable == Reach(memory_tasks, {t \in Live(memory_tasks) : memory_tasks[t].anchored})

\* C16: the active_count of a task is greater than 0 if and only if a path of the
\* children graph leads from an anchored root to the task.
C16_ActiveCountSound ==
    \A t \in Live(memory_tasks) : memory_tasks[t].active_count > 0 <=> t \in Reachable

\* C20: invalidate_task moves a Done task to Dirty and an InProgress task to
\* InProgressDirty under the same epoch and with its run still going; on a Scheduled,
\* Dirty or InProgressDirty task it changes nothing.
C20_InvalidateTransitions ==
    [][\A t \in Ids : InvalidateTask(t) =>
          LET old == memory_tasks[t]
              new == memory_tasks'[t]
          IN  /\ old.state = "Done" => new = [old EXCEPT !.state = "Dirty"]
              /\ old.state = "InProgress" =>
                    /\ new = [old EXCEPT !.state = "InProgressDirty"]
                    /\ new.epoch = old.epoch
                    /\ executing' = executing
              /\ old.state \in {"Scheduled", "Dirty", "InProgressDirty"} => UNCHANGED vars]_vars

\* task 2 reads nothing, so only invalidate_task makes its run stale: the run of epoch 1
\* was invalidated and is still going
C20_Witness ==
    /\ memory_tasks[2] # NoTask
    /\ memory_tasks[2].state = "InProgressDirty"
    /\ memory_tasks[2].epoch = 1
    /\ executing[2] > 0

\* C17: once a run of a task has completed with the task Done, every successful read of
\* the task's output returns the value of the latest run that completed Done, never the
\* value of an earlier one.
C17_ReadReturnsLatestDone ==
    [][\A task \in Ids, reader \in Ids :
          /\ TryReadTaskOutput(task, reader)
          /\ hist.done[task] # None
          /\ TryReadReturn(memory_tasks, task) # Listener
          => TryReadReturn(memory_tasks, task) = hist.done[task]]_vars

\* the root has read the output of task 2 after the second run of task 2 completed Done
C17_Witness ==
    /\ memory_tasks[2] # NoTask
    /\ memory_tasks[2].epoch = 2
    /\ memory_tasks[2].state = "Done"
    /\ hist.done[2] # None
    /\ 1 \in memory_tasks[2].output_readers
    /\ TaskOutput(2) \in dependencies_to_track[1]

\* the value an edge names now
CellValue(e) ==
    IF e.kind = "TaskOutput" THEN memory_tasks[e.task].output
    ELSE memory_tasks[e.task].slots[e.index].content

\* the run of r has not been told yet that something it read has changed
Unwarned(r) ==
    /\ memory_tasks[r].state \in {"InProgress", "Done"}
    /\ r \notin notified

\* C18: when a tracked read of a cell by reader R meets a changing write to the cell,
\* either the write finds R in the reader set and notifies it, or the read returns the
\* new value and the write does not notify R; R is never left with the old value and no
\* notification.
C18_ReadWriteRace ==
    /\ [](\A r \in Live(memory_tasks) : Unwarned(r) =>
             \A p \in hist.seen[r] : memory_tasks[p[1].task] # NoTask => CellValue(p[1]) = p[2])
    /\ [][\A e \in Edges : CellValue(e)' # CellValue(e) =>
             /\ Readers(e) \subseteq notified'
             /\ (notified' \ notified) \subseteq Readers(e)]_vars

\* the readers that hold an unreleased listener on an edge
Waiting(e) == {p[2] : p \in {q \in hist.waiting : q[1] = e}}

\* this step is a successful write to the output of task t: the result of a run that
\* was not invalidated
Written(t) ==
    Called("task_execution_completed", t) /\ memory_tasks[t].state = "InProgress"

\* C19: every reader suspended on an output or a slot that is not there is released by
\* the next successful write to it, is woken at most once per value transition, and is
\* woken before the producer is Done again. read_task_slot hands back the content and no
\* listener, so the readers that are suspended are suspended on an output.
C19_WakeCompleteness ==
    /\ [][\A t \in Live(memory_tasks) :
             /\ Written(t) => Waiting(TaskOutput(t))' = {} /\ hist'.woken = Waiting(TaskOutput(t))
             /\ ~Written(t) => Waiting(TaskOutput(t)) \subseteq Waiting(TaskOutput(t))']_vars
    /\ [](\A e \in Edges :
             Waiting(e) # {} => e.kind = "TaskOutput" /\ memory_tasks[e.task].state # "Done")

\* the root was suspended on the output of task 2, and the completion of the second run
\* of task 2 has just released it
C19_Witness ==
    /\ memory_tasks[2] # NoTask
    /\ memory_tasks[2].epoch = 2
    /\ memory_tasks[2].state = "Done"
    /\ last.op = "task_execution_completed"
    /\ last.task = 2
    /\ hist.woken = {1}
    /\ Waiting(TaskOutput(2)) = {}
    /\ hist.done[2] = last.key

\* C21: invalidating a Done task notifies all current readers of its output and of every
\* one of its slots, and enqueues the task for scheduling if and only if its active_count
\* is greater than 0; an inactive task goes to Dirty and is not enqueued.
C21_InvalidateDone ==
    [][\A t \in Ids : InvalidateTask(t) /\ memory_tasks[t].state = "Done" =>
          /\ memory_tasks'[t].state = "Dirty"
          /\ notified' = notified \cup memory_tasks[t].output_readers
                            \cup UNION {memory_tasks[t].slots[i].readers :
                                           i \in DOMAIN memory_tasks[t].slots}
          /\ scheduled' = IF memory_tasks[t].active_count > 0
                          THEN scheduled \cup {t} ELSE scheduled]_vars

\* both tasks completed their only run Done and were invalidated: task 2, active, with
\* the root among the readers of its output and of its slot, is enqueued and the root is
\* notified; the root, whose anchor was released, is Dirty and not enqueued
C21_Witness ==
    /\ memory_tasks[1] # NoTask /\ memory_tasks[2] # NoTask
    /\ memory_tasks[2].state = "Dirty" /\ memory_tasks[2].epoch = 1
    /\ hist.done[2] # None
    /\ memory_tasks[2].active_count > 0
    /\ 1 \in memory_tasks[2].output_readers
    /\ 1 \in DOMAIN memory_tasks[2].slots /\ 1 \in memory_tasks[2].slots[1].readers
    /\ 2 \in scheduled
    /\ 1 \in notified
    /\ memory_tasks[1].state = "Dirty" /\ memory_tasks[1].epoch = 1
    /\ hist.done[1] # None
    /\ memory_tasks[1].active_count = 0
    /\ 1 \notin scheduled

\* the diamond after the change of A has come to rest: nothing enqueued, nothing to
\* notify, no task waiting to be started, no body running
DiamondQuiescent ==
    /\ memory_tasks[5].epoch > 1
    /\ scheduled = {} /\ notified = {}
    /\ \A t \in DiamondIds : executing[t] = 0 /\ memory_tasks[t].state # "Scheduled"

\* C22: after the output of A changes, at quiescence every task of the diamond holds the
\* value computed from the new A, and each of A, B, C and D has been executed exactly
\* twice: a task whose second run has ended is Done and is not handed back to the
\* executor for a third run.
C22_DiamondTwice ==
    /\ DiamondQuiescent =>
          \A t \in DiamondIds : /\ memory_tasks[t].state = "Done"
                                /\ memory_tasks[t].output = "b"
                                /\ memory_tasks[t].epoch = 2
    /\ \A t \in 2..5 : memory_tasks[t].epoch = 2 /\ executing[t] = 0 =>
                          memory_tasks[t].state = "Done" /\ t \notin scheduled

\* every background job that was enqueued has been run to its end, and no
\* get_or_create_persistent_task call is in flight
JobsQuiescent ==
    /\ \A j \in JobIds : background_jobs[j] = NoJob /\ job_running[j] = NoRun
    /\ AllIdle

\* the anchor of every root that was created has been released
RootsDropped ==
    /\ hist.roots > 0
    /\ \A t \in Live(memory_tasks) : ~memory_tasks[t].anchored

\* C23: after the anchored root is dropped and the background jobs have been run to
\* quiescence, every task that was reachable only from that root has active_count 0, is
\* gone from the memoization cache and from the store, and its id is back in the
\* allocator.
C23_DeactivationCascade ==
    RootsDropped /\ JobsQuiescent =>
        /\ \A t \in Live(memory_tasks) : memory_tasks[t].active_count = 0
        /\ \A k \in PersistentTaskType : task_cache[k] = NoId
        /\ \A t \in 1..(id_factory.next - 1) :
              memory_tasks[t] = NoTask /\ t \in id_factory.free

\* C24: a job stored by create_background_job is run by at most one run_background_job
\* call: the call that starts the run takes the job out of the store, a stored job and a
\* run never share an id, and both hold ids the job allocator has handed out; when the
\* run has finished, its id is back in the allocator.
C24_JobIdConsumedOnce ==
    /\ [](\A j \in JobIds :
            /\ ~(background_jobs[j] # NoJob /\ job_running[j] # NoRun)
            /\ background_jobs[j] # NoJob \/ job_running[j] # NoRun =>
                  j \in Allocated(background_job_id_factory))
    /\ [][\A j \in JobIds :
            /\ job_running[j] = NoRun /\ job_running'[j] # NoRun =>
                  /\ background_jobs[j] # NoJob
                  /\ background_jobs'[j] = NoJob
                  /\ job_running'[j].kind = background_jobs[j].kind
                  /\ job_running'[j].tasks = background_jobs[j].tasks
            /\ job_running[j] # NoRun /\ job_running[j].done /\ job_running'[j] = NoRun =>
                  j \in background_job_id_factory'.free]_vars

\* the run of the DeactivateTasks job has finished and its id is back in the allocator,
\* while the RemoveTasks job it enqueued is running under another id
C24_Witness ==
    /\ background_job_id_factory.free # {}
    /\ \E j \in JobIds : /\ job_running[j] # NoRun
                         /\ job_running[j].kind = "RemoveTasks"
                         /\ j \notin background_job_id_factory.free

\* C25: create_transient_task creates a new task entry under an id that no live task
\* holds and that neither the cache nor a call about to connect names, leaves every other
\* entry and the memoization cache as they were, and leaves the new task Scheduled with
\* a scheduling request issued for it.
C25_CreateTransient ==
    [][hist'.roots # hist.roots =>
          LET id == last'.ret
          IN  /\ last'.op = "create_transient_task"
              /\ id \in Ids
              /\ memory_tasks[id] = NoTask
              /\ \A k \in PersistentTaskType : task_cache[k] # id
              /\ \A c \in Callers : callers[c].result # id
              /\ memory_tasks'[id] # NoTask
              /\ memory_tasks'[id].ty \in TransientTaskType
              /\ memory_tasks'[id].state = "Scheduled"
              /\ \A u \in Ids \ {id} : memory_tasks'[u] = memory_tasks[u]
              /\ task_cache' = task_cache
              /\ scheduled' = scheduled \cup {id}]_vars

\* a second transient task was created under the id a losing get_or_create call had
\* handed back, while a persistent task is cached
C25_Witness ==
    /\ last.op = "create_transient_task"
    /\ hist.roots = 2
    /\ \E k \in PersistentTaskType :
          /\ hist.discarded[k] > 0
          /\ task_cache[k] # NoId
          /\ last.ret > task_cache[k]
    /\ memory_tasks[last.ret].state = "Scheduled"
    /\ last.ret \in scheduled
    /\ id_factory.free = {}

\* the future of the run of t was dropped: t is InProgress or InProgressDirty and the
\* executor holds no future for it
Dropped(t) ==
    /\ memory_tasks[t] # NoTask
    /\ Running(memory_tasks[t])
    /\ executing[t] = 0

\* C26: after the executor drops the future of a task without reporting a completion,
\* the task stays InProgress or InProgressDirty until it is started again, and it is
\* not stuck there: with try_start_task_execution retried and invalidations arriving, a
\* run of the task is started again.
C26_DroppedRunsAgain ==
    /\ [][\A t \in Ids : Dropped(t) /\ executing'[t] = 0 => Dropped(t)']_vars
    /\ \A t \in Ids : Dropped(t) ~> executing[t] > 0

\* C27: try_read_task_output called with a reader id that is unknown to the backend
\* fails with InternalError and leaves every reader set and every dependency set as it
\* was.
C27_UnknownReaderFails ==
    [][\A task \in Ids :
          Called("try_read_task_output", task) /\ memory_tasks[last'.ret] = NoTask =>
              /\ last'.out = "InternalError"
              /\ \A e \in Edges : Readers(e)' = Readers(e)
              /\ \A t \in Live(memory_tasks) : DependencySet(t)' = DependencySet(t)]_vars

\* C28: a failing body is handled as a value. task_execution_completed with a failure
\* stores it in the output of a run that is not stale and moves the state machine and
\* answers exactly as it does for a value; a read of the task hands the failure to the
\* dependent and registers it; a later run that succeeds replaces the failure and
\* notifies the dependents that read it.
C28_FailureIsValue ==
    [][/\ \A t \in Ids :
            Called("task_execution_completed", t) =>
                /\ \A v \in Values :
                      /\ memory_tasks'[t].state =
                            CompletedStore(memory_tasks, t, v, dependencies_to_track[t])[t].state
                      /\ last'.out = CompletedReturn(memory_tasks, t, v)
                /\ memory_tasks[t].state = "InProgress" =>
                      /\ memory_tasks'[t].state = "Done"
                      /\ memory_tasks'[t].output = last'.key
                /\ memory_tasks[t].state = "InProgress" /\ memory_tasks[t].output = Failure
                      /\ last'.key # Failure =>
                      memory_tasks[t].output_readers \subseteq notified'
       /\ \A task \in Ids, reader \in Ids :
            TryReadTaskOutput(task, reader) /\ OutputReady(memory_tasks[task])
                /\ memory_tasks[task].output = Failure =>
                /\ <<TaskOutput(task), Failure>> \in hist'.seen[reader]
                /\ reader \in memory_tasks'[task].output_readers
                /\ TaskOutput(task) \in dependencies_to_track'[reader]]_vars

\* the first run of task 2 failed, the root read the failure, task 2 was invalidated
\* and its second run succeeded: its output is the value and the root has a
\* notification pending
C28_Witness ==
    /\ last.op = "task_execution_completed" /\ last.task = 2 /\ last.key \in Values
    /\ memory_tasks[2].state = "Done" /\ memory_tasks[2].epoch = 2
    /\ memory_tasks[2].output = last.key
    /\ <<TaskOutput(2), Failure>> \in hist.seen[1]
    /\ 1 \in notified

\* C29: try_read_task_output_untracked and read_task_slot_untracked return what the
\* tracked read returns on the same state (the value or the listener, the content of the
\* slot) and leave every reader set and every dependency set as it was.
C29_UntrackedReads ==
    [][\A task \in Ids :
          /\ Called("try_read_task_output_untracked", task) =>
                /\ last'.out = TryReadReturn(memory_tasks, task)
                /\ \A e \in Edges : Readers(e)' = Readers(e)
                /\ \A t \in Live(memory_tasks) : DependencySet(t)' = DependencySet(t)
                /\ memory_tasks' = memory_tasks
          /\ Called("read_task_slot_untracked", task) =>
                /\ last'.out = memory_tasks[task].slots[last'.ret].content
                /\ \A e \in Edges : Readers(e)' = Readers(e)
                /\ \A t \in Live(memory_tasks) : DependencySet(t)' = DependencySet(t)
                /\ memory_tasks' = memory_tasks]_vars

\* an untracked read of slot 1 of task 2 has returned its content while the root, which
\* read the slot and the output of task 2 by tracked reads, is the only reader of both
C29_Witness ==
    /\ last.op = "read_task_slot_untracked" /\ last.task = 2 /\ last.out \in Values
    /\ memory_tasks[2].state = "Done"
    /\ 1 \in DOMAIN memory_tasks[2].slots
    /\ memory_tasks[2].slots[1].readers = {1}
    /\ memory_tasks[2].output_readers = {1}
    /\ executing[1] > 0
    /\ DependencySet(1) = {TaskOutput(2), TaskSlot(2, 1)}

\* C30: the parents relation is the exact inverse of the children relation: every child
\* named in the children of a live task is live and names that task among its parents,
\* every parent named in the parents of a live task is live and names that task among
\* its children, so that a removal leaves the pair on neither side.
C30_ParentsInverse ==
    \A p \in Live(memory_tasks) :
        /\ \A c \in memory_tasks[p].children :
              memory_tasks[c] # NoTask /\ p \in memory_tasks[c].parents
        /\ \A q \in memory_tasks[p].parents :
              memory_tasks[q] # NoTask /\ p \in memory_tasks[q].children

\* C31: connect_child on an edge that is already there changes no active count;
\* on a new edge the child is inserted, and only under an active parent the child's
\* count grows by exactly one, the children of the child get +1 exactly when the
\* child's count was 0, and no task gets more than +1 from one call, cycles included.
C31_ConnectChildIdempotent ==
    [][last'.op = "connect_task_child" =>
        LET parent == last'.task
            child == last'.ret
            before(t) == memory_tasks[t].active_count
            after(t) == memory_tasks'[t].active_count
        IN  /\ child \in memory_tasks'[parent].children
            /\ \A t \in Ids : after(t) - before(t) \in {0, 1}
            /\ child \in memory_tasks[parent].children => memory_tasks' = memory_tasks
            /\ before(parent) = 0 => \A t \in Ids : after(t) = before(t)
            /\ (child \notin memory_tasks[parent].children /\ before(parent) > 0) =>
                  /\ after(child) = before(child) + 1
                  /\ \A g \in memory_tasks'[child].children \ {child} :
                        (after(g) = before(g) + 1) <=> (before(child) = 0)
                  /\ before(child) > 0 => \A t \in Ids \ {child} : after(t) = before(t)
    ]_vars

\* a cycle between tasks 2 and 3 that was built while both were inactive has been
\* connected under the active root: each task of the cycle was counted once
C31_Witness ==
    /\ last.op = "connect_task_child"
    /\ last.task = 1
    /\ last.ret = 2
    /\ last.out = "Inserted"
    /\ 3 \in memory_tasks[2].children
    /\ 2 \in memory_tasks[3].children
    /\ memory_tasks[2].active_count = 1
    /\ memory_tasks[3].active_count = 1

\* the step of caller c that connects and returns
Returns(c) == callers[c].pc = "connect" /\ callers'[c].pc = "idle"

\* the children a step adds to task t
Connected(t) == memory_tasks'[t].children \ memory_tasks[t].children

\* C32: a call of get_or_create_persistent_task that returns an id has connected that
\* id as a child of its parent_task, whether it hit the cache, won the insertion or
\* lost it; it connects nothing else, a loser does not connect the id it discarded,
\* and no other step of a call connects anything.
C32_ReturnedIdConnectedOnce ==
    [][/\ \A c \in Callers :
            (Returns(c) /\ last'.ret # Panic) =>
                LET parent == callers[c].parent_task
                    result == callers[c].result
                IN  /\ last'.op = "get_or_create_persistent_task"
                    /\ last'.ret = result
                    /\ result \in memory_tasks'[parent].children
                    /\ \A t \in Ids : Connected(t) \subseteq IF t = parent THEN {result} ELSE {}
                    /\ callers[c].id # result => callers[c].id \notin Connected(parent)
       /\ (\A c \in Callers : ~Returns(c)) => \A t \in Ids : Connected(t) = {}
    ]_vars

\* two calls raced for one fingerprint under the root: the loser has discarded its id
\* and returned, the winner has not connected yet, and the root has the winner's id
\* as child
C32_Witness ==
    /\ last.op = "get_or_create_persistent_task"
    /\ hist.calls = 2
    /\ \E w \in Callers, k \in PersistentTaskType :
          /\ callers[w].pc = "connect"
          /\ callers[w].id = callers[w].result
          /\ callers[w].task_type = k
          /\ hist.discarded[k] = 1
          /\ last.key = k
          /\ last.ret = callers[w].id
          /\ memory_tasks[callers[w].parent_task].children = {callers[w].id}
          /\ \A c \in Callers \ {w} : callers[c] = IdleCaller

\* C33: a try_read_task_output on a task whose output is not there returns the
\* listener and registers nothing: the reader set of the output and the dependencies
\* of the running task stay as they were; a read that returns the value records both,
\* and an OnOutput dependency is recorded by no step but a read that returns the value.
C33_PendingReadRegistersNothing ==
    [][/\ \A task \in Ids, reader \in Ids :
            TryReadTaskOutputAwait(task, reader) =>
                /\ TryReadReturn(memory_tasks, task) = Listener =>
                      /\ ~OutputReady(memory_tasks[task])
                      /\ memory_tasks'[task].output_readers = memory_tasks[task].output_readers
                      /\ dependencies_to_track' = dependencies_to_track
                /\ TryReadReturn(memory_tasks, task) # Listener =>
                      /\ TryReadReturn(memory_tasks, task) = memory_tasks[task].output
                      /\ reader \in memory_tasks'[task].output_readers
                      /\ TaskOutput(task) \in dependencies_to_track'[reader]
       /\ \A task \in Ids, reader \in Ids :
            TaskOutput(task) \in dependencies_to_track'[reader] \ dependencies_to_track[reader] =>
                OutputReady(memory_tasks[task])
    ]_vars

\* the running root holds the listener of a read of task 2, whose output is not there:
\* it is neither a reader of the output nor does its run carry the dependency
C33_Witness ==
    /\ executing[1] > 0
    /\ <<TaskOutput(2), 1>> \in hist.waiting
    /\ ~OutputReady(memory_tasks[2])
    /\ 1 \notin memory_tasks[2].output_readers
    /\ TaskOutput(2) \notin dependencies_to_track[1]

\* C34: read_task_slot records the OnSlot(task, index) dependency for the running
\* task ahead of the read and whatever the read finds: a content, an empty slot, or no
\* task at all; a reader that was handed an empty slot carries the edge.
C34_SlotDependencyFirst ==
    /\ [][last'.op = "read_task_slot" /\ last'.tick # last.tick =>
            /\ TaskSlot(last'.task, last'.ret) \in dependencies_to_track'[last'.key]
            /\ \A r \in Ids \ {last'.key} : dependencies_to_track'[r] = dependencies_to_track[r]
            /\ dependencies_to_track'[last'.key] =
                  dependencies_to_track[last'.key] \cup {TaskSlot(last'.task, last'.ret)}]_vars
    /\ [](\A r \in Ids, t \in Ids, i \in 1..MaxSlots :
            (executing[r] > 0 /\ <<TaskSlot(t, i), None>> \in hist.seen[r]) =>
                TaskSlot(t, i) \in dependencies_to_track[r])

\* the running root was handed the empty content of a slot of task 2 that is still
\* unwritten: its run carries the edge, and it is not among the readers of the slot
C34_Witness ==
    /\ last.op = "read_task_slot"
    /\ last.key = 1
    /\ last.task = 2
    /\ last.out = None
    /\ executing[1] > 0
    /\ memory_tasks[2].slots[last.ret].content = None
    /\ 1 \notin memory_tasks[2].slots[last.ret].readers
    /\ TaskSlot(2, last.ret) \in dependencies_to_track[1]

\* C35: run_background_job on an id under which no job is stored (never created, or
\* taken by an earlier call) starts no run, changes no task and no cache entry, and
\* does not hand the id to the job allocator.
C35_NoJobNoEffect ==
    [][\A j \in JobIds :
          RunBackgroundJobNone(j) =>
              /\ background_jobs[j] = NoJob
              /\ job_running' = job_running
              /\ background_jobs' = background_jobs
              /\ memory_tasks' = memory_tasks
              /\ task_cache' = task_cache
              /\ id_factory' = id_factory
              /\ scheduled' = scheduled
              /\ background_job_id_factory' = background_job_id_factory]_vars

\* run_background_job was called a second time on the id of a job that is still
\* running: the run goes on and the id stays handed out
C35_Witness ==
    /\ last.op = "run_background_job"
    /\ last.out = "NoJob"
    /\ job_running[last.ret] # NoRun
    /\ ~job_running[last.ret].done
    /\ background_jobs[last.ret] = NoJob
    /\ last.ret \in Allocated(background_job_id_factory)

\* C36: a job id goes back to the job allocator only in the step that ends the run of
\* its job, after the job has run; an id the allocator can hand out has no job stored
\* and no run going, and the step that stores a job stores it under an id that was
\* free, in an entry that was empty.
C36_JobIdFreedAfterRun ==
    /\ [](\A j \in JobIds :
            (j \in background_job_id_factory.free \/ j >= background_job_id_factory.next) =>
                (background_jobs[j] = NoJob /\ job_running[j] = NoRun))
    /\ [][\A j \in JobIds :
            /\ j \in background_job_id_factory'.free \ background_job_id_factory.free =>
                  /\ job_running[j] # NoRun
                  /\ job_running[j].done
                  /\ job_running[j].tasks = {}
                  /\ job_running'[j] = NoRun
                  /\ background_jobs[j] = NoJob
            /\ (background_jobs'[j] # NoJob /\ background_jobs'[j] # background_jobs[j]) =>
                  /\ background_jobs[j] = NoJob
                  /\ job_running[j] = NoRun
                  /\ j \notin Allocated(background_job_id_factory)
                  /\ j \in Allocated(background_job_id_factory')]_vars

\* a DeactivateTasks job waits in the store while a RemoveTasks job that an earlier,
\* finished DeactivateTasks run enqueued is stored or running: with MaxJobs ids, one
\* of the two was stored under an id that had been handed back
C36_Witness ==
    \E j \in JobIds, k \in JobIds :
        /\ j # k
        /\ background_jobs[j].kind = "DeactivateTasks"
        /\ background_jobs[k].kind = "RemoveTasks" \/ job_running[k].kind = "RemoveTasks"
        /\ background_job_id_factory.next = MaxJobs + 1
        /\ background_job_id_factory.free = {}

\* C37: after n push calls on a new ChunkedVec, len() returns n, for every n from 0
\* to MaxPush, the chunk boundaries 8, 9, 24, 25, 56 and 57 among them.
C37_LenIsPushCount ==
    VecAlive => ChunkedVecLen(chunks, build) = Len(pushed)

\* an iterator has been handed out and has not panicked
Iterating == exact_size_iter.kind \in {"iter", "into_iter"}

\* C38: the iterators of iter() and into_iter() yield the pushed items once each, in
\* push order; the length the iterator reports starts at the number of items, goes
\* down by one with each item it yields, and is 0 exactly when no item is left.
C38_IterExactSize ==
    /\ [](Iterating =>
            /\ yielded \o exact_size_iter.iter = pushed
            /\ exact_size_iter.len = Len(exact_size_iter.iter)
            /\ exact_size_iter.len = 0 <=> exact_size_iter.iter = << >>)
    /\ [][(~Iterating /\ Iterating') => exact_size_iter'.len = Len(pushed)]_vars
    /\ [][(Iterating /\ Len(yielded') > Len(yielded)) =>
            /\ Iterating'
            /\ exact_size_iter'.len = exact_size_iter.len - 1
            /\ yielded' = Append(yielded, pushed[Len(yielded) + 1])]_vars

\* C39: is_empty() is true exactly when len() is 0, that is exactly when no item has
\* been pushed.
C39_IsEmptyIffLenZero ==
    VecAlive =>
        /\ ChunkedVecIsEmpty(chunks) <=> ChunkedVecLen(chunks, build) = 0
        /\ ChunkedVecIsEmpty(chunks) <=> pushed = << >>

\* a vector whose items fill more than one chunk is asked: it is not empty and its
\* length is the number of items pushed
C39_Witness ==
    /\ VecAlive
    /\ Len(chunks) > 1
    /\ ~ChunkedVecIsEmpty(chunks)
    /\ ChunkedVecLen(chunks, build) = Len(pushed)

\* chunk_size(0) + ... + chunk_size(chunk_index)
RECURSIVE SumChunkSize(_)
SumChunkSize(chunk_index) ==
    IF chunk_index = 0 THEN chunk_size(0)
    ELSE chunk_size(chunk_index) + SumChunkSize(chunk_index - 1)

\* C40: chunk i (from 0) has capacity 8 * 2^i, no chunk is empty, every chunk but the
\* last is full, and cummulative_chunk_size(i) is chunk_size(0) + ... + chunk_size(i);
\* a push appends to the last chunk, or opens a new chunk when there is none or the
\* last one is full, and leaves every item in the chunk and at the position it was
\* pushed to.
C40_ChunkLayout ==
    /\ [](\A i \in 1..Len(chunks) :
            /\ chunks[i].capacity = 8 * 2^(i - 1)
            /\ chunks[i].capacity = chunk_size(i - 1)
            /\ chunks[i].items # << >>
            /\ Len(chunks[i].items) <= chunks[i].capacity
            /\ i < Len(chunks) => Len(chunks[i].items) = chunks[i].capacity
            /\ cummulative_chunk_size(i - 1) = SumChunkSize(i - 1))
    /\ [][Len(pushed') > Len(pushed) =>
            /\ \A i \in 1..Len(chunks) :
                  /\ chunks'[i].capacity = chunks[i].capacity
                  /\ SubSeq(chunks'[i].items, 1, Len(chunks[i].items)) = chunks[i].items
            /\ \/ /\ Len(chunks') = Len(chunks)
                  /\ Len(chunks[Len(chunks)].items) < chunks[Len(chunks)].capacity
                  /\ Len(chunks'[Len(chunks)].items) = Len(chunks[Len(chunks)].items) + 1
               \/ /\ Len(chunks') = Len(chunks) + 1
                  /\ chunks = << >> \/ Len(chunks[Len(chunks)].items) = chunks[Len(chunks)].capacity
                  /\ Len(chunks'[Len(chunks')].items) = 1
            /\ FlatMap(chunks') = pushed']_vars

====
